---- MODULE Spec2Model ----
(***************************************************************************)
(* Model of the tabular analytics core of backend/visualizer/utils.py:     *)
(* the reader (_read_tabular), the validator and summary                   *)
(* (parse_and_validate), parse_rows and the quality report                 *)
(* (compute_quality, infer_column_types).                                  *)
(*                                                                         *)
(* Python values are tagged records: None, S(s) for a str, F(n) for the    *)
(* float n.0, I(n) for an int, L(xs) for a list.  A row is a dict, i.e. a  *)
(* function from its keys to values; r.get(c) is Get(r, c).                *)
(***************************************************************************)
EXTENDS Integers, Sequences, FiniteSets, TLC

\* ------------------------------------------------------------------ bounds
\* longest header row of the reader inputs
MaxHeaderCells == 3
\* data rows of the inputs that vary the set of header columns
MaxRowsSchema == 1
\* data rows of the inputs that vary the base numeric cells
MaxRowsNumeric == 2
\* data rows of the inputs that vary the Type cell
MaxRowsType == 3
\* data rows of the inputs that vary one extra column
MaxRowsInfer == 5
\* data rows of the inputs handed to parse_rows / compute_quality
MaxRowsQuality == 5
\* how many times compute_quality is run on the same (header, rows)
MaxRuns == 2
\* data rows of the inputs profiled by both the summary and the quality report
MaxRowsProfile == 5

\* data rows of the inputs handed to compute_correlations
MaxRowsCorr == 3

\* rows of the short row lists handed to the desktop's _compute_outliers
MaxRowsOutlier == 5
\* rows holding the common value in the long row lists
MaxBulk == 32
\* rows holding values away from the common value in the long row lists
MaxLadder == 10

\* rows holding the common values in the inputs of detect_anomalies_zscore
MaxBulkZ == 10
\* rows after them that hold other values
MaxTailZ == 3

\* data rows of the inputs handed to kmeans_clusters
MaxRowsK == 3

\* data rows of the inputs correlated over four columns
MaxRowsCorrWide == 3

\* data rows of the inputs of compute_variance_skewness
MaxRowsSkew == 3

\* data rows of the inputs of the report
MaxRowsReport == 5

\* datasets the user can open in the widget, and load_dataset calls
NumDatasets == 2

MaxLoads == 3

\* ------------------------------------------------------------ Python values
None == [k |-> "None"]
S(s) == [k |-> "str", s |-> s]
F(n) == [k |-> "float", n |-> n]
I(n) == [k |-> "int", n |-> n]
L(xs) == [k |-> "list", xs |-> xs]

Range(seq) == {seq[i] : i \in 1..Len(seq)}

\* the strings float() accepts among the strings of the model, with their value
FloatLiterals ==
    ("1" :> 1) @@ ("2" :> 2) @@ ("3" :> 3) @@ ("4" :> 4) @@ ("7" :> 7) @@
    (" 7 " :> 7) @@ ("10" :> 10) @@ ("10.0" :> 10) @@ ("12" :> 12) @@
    ("-1" :> -1) @@ ("-2" :> -2) @@ ("0" :> 0)

\* the strings of the model float() accepts whose value is not a whole number,
\* with their value in tenths
DecimalLiterals == ("0.1" :> 1)

\* the strings float() turns into nan, among the strings of the model
NaNLiterals == {"nan", "NaN"}

\* float(v) does not raise
ParsesAsFloat(v) ==
    \/ v.k \in {"float", "int"}
    \/ v.k = "str" /\ v.s \in DOMAIN FloatLiterals \cup NaNLiterals \cup DOMAIN DecimalLiterals

\* float(v), for a v that parses
FloatOf(v) == IF v.k = "str" THEN FloatLiterals[v.s] ELSE v.n

\* str(v)
Str(v) ==
    CASE v.k = "None" -> "None"
      [] v.k = "str" -> v.s
      [] v.k = "float" -> ToString(v.n) \o ".0"
      [] v.k = "int" -> ToString(v.n)

\* s.strip(), on the strings of the model that carry white space
StripTable == (" A " :> "A") @@ (" 7 " :> "7")

Strip(s) == IF s \in DOMAIN StripTable THEN StripTable[s] ELSE s

\* v in (None, '')
IsEmpty(v) == v = None \/ v = S("")

\* r.get(c)
Get(r, c) == IF c \in DOMAIN r THEN r[c] ELSE None

\* r.get(c, d)
GetDefault(r, c, d) == IF c \in DOMAIN r THEN r[c] ELSE d

REQUIRED_COLUMNS == <<"Equipment Name", "Type", "Flowrate", "Pressure", "Temperature">>

BASE_COLUMNS == <<"Flowrate", "Pressure", "Temperature">>

\* the key csv.DictReader files surplus cells under (restkey = None)
RestKey == "<restkey None>"

\* ------------------------------------------------------------------ reader
\* the last position of the first n header cells that carries the name c
LastPos(header, n, c) ==
    CHOOSE i \in 1..n : header[i] = c /\ \A j \in (i+1)..n : header[j] # c

Min2(a, b) == IF a < b THEN a ELSE b

\* {header[i]: vals[i] for i in range(min(len(header), len(vals)))}
XlsxRow(header, vals) ==
    LET n == Min2(Len(header), Len(vals))
    IN  [c \in {header[i] : i \in 1..n} |-> vals[LastPos(header, n, c)]]

\* csv.DictReader.__next__: zip, then restkey or restval
CsvRow(fieldnames, line) ==
    LET lf == Len(fieldnames)
        lr == Len(line)
        keys == Range(fieldnames) \cup (IF lf < lr THEN {RestKey} ELSE {})
    IN  [c \in keys |->
            IF c = RestKey /\ lf < lr
            THEN L(SubSeq(line, lf + 1, lr))
            ELSE LET p == LastPos(fieldnames, lf, c)
                 IN  IF p <= lr THEN line[p] ELSE None]

XlsxHeaderCell(h) == IF h # None THEN Strip(Str(h)) ELSE ""

NonBlankName(h) == h # ""

NonBlankLine(l) == l # <<>>

TabOk(header, rows) == [status |-> "ok", header |-> header, rows |-> rows]

Raised(exc) == [status |-> "error", exc |-> exc]

NoHeaderRaises(f) == Raised("ParseError")

\* no first row: 'except StopIteration: return [], []' in the spreadsheet
\* path, 'reader.fieldnames or []' with no row left in the text path
NoHeaderResult(f) == TabOk(<<>>, <<>>)

\* _read_tabular(file_bytes, filename): the file is its kind (by extension),
\* whether its bytes decode, and the grid of cells they decode to
ReadTabular(f) ==
    IF ~f.decodable
    THEN Raised(IF f.kind = "xlsx" THEN "BadZipFile" ELSE "UnicodeDecodeError")
    ELSE IF f.grid = <<>> THEN NoHeaderResult(f)
    ELSE IF f.kind = "xlsx"
    THEN LET first == f.grid[1]
             cells == [i \in 1..Len(first) |-> XlsxHeaderCell(first[i])]
             header == SelectSeq(cells, NonBlankName)
             body == Tail(f.grid)
         IN  TabOk(header, [j \in 1..Len(body) |-> XlsxRow(header, body[j])])
    ELSE LET first == f.grid[1]
             header == [i \in 1..Len(first) |-> first[i].s]
             body == SelectSeq(Tail(f.grid), NonBlankLine)
         IN  TabOk(header, [j \in 1..Len(body) |-> CsvRow(header, body[j])])

\* ------------------------------------------------------- parse_and_validate
MissingColumnsErrorNamingMissing(header) ==
    [status |-> "error", exc |-> "CSVValidationError",
     text |-> "File must include columns",
     columns |-> SelectSeq(REQUIRED_COLUMNS, LAMBDA c : c \notin Range(header))]

\* raise CSVValidationError('File must include columns: ' + ', '.join(REQUIRED_COLUMNS))
MissingColumnsError(header) ==
    [status |-> "error", exc |-> "CSVValidationError",
     text |-> "File must include columns", columns |-> REQUIRED_COLUMNS]

\* raise CSVValidationError(f'Invalid numeric in {base} at row {idx}')
InvalidNumericError(base, idx) ==
    [status |-> "error", exc |-> "CSVValidationError",
     text |-> "Invalid numeric", column |-> base, row |-> idx]

\* not header or any(col not in header for col in REQUIRED_COLUMNS)
SchemaRejected(header) ==
    header = <<>> \/ \E i \in 1..Len(REQUIRED_COLUMNS) : REQUIRED_COLUMNS[i] \notin Range(header)

InvalidCellEmptyFails(row, base) ==
    LET val == Get(row, base)
    IN  val # None /\ ~ParsesAsFloat(val)

\* the body of the validation loop for one row and one base column
InvalidCell(row, base) ==
    LET val == Get(row, base)
    IN  ~IsEmpty(val) /\ ~ParsesAsFloat(val)

\* the validation loop from row idx, base column b on: the first error, or "ok"
RECURSIVE ValidateFrom(_, _, _)
ValidateFrom(rows, idx, b) ==
    IF idx > Len(rows) THEN [status |-> "ok"]
    ELSE IF b > Len(BASE_COLUMNS) THEN ValidateFrom(rows, idx + 1, 1)
    ELSE IF InvalidCell(rows[idx], BASE_COLUMNS[b])
         THEN InvalidNumericError(BASE_COLUMNS[b], idx)
         ELSE ValidateFrom(rows, idx, b + 1)

\* type_counts[str(row.get('Type', 'Unknown'))] += 1
TypeKey(row) == Str(GetDefault(row, "Type", S("Unknown")))

TypeDistribution(rows) ==
    [t \in {TypeKey(rows[i]) : i \in 1..Len(rows)} |->
        Cardinality({i \in 1..Len(rows) : TypeKey(rows[i]) = t})]

\* non_empty = [v for v in (row.get(col) for row in rows) if v not in (None, '')]
NonEmptyValues(rows, col) ==
    LET vals == [i \in 1..Len(rows) |-> Get(rows[i], col)]
        Kept(v) == ~IsEmpty(v)
    IN  SelectSeq(vals, Kept)

\* parsed_vals: the floats of the values that parse, in order
ParsedValues(vals) ==
    LET ok == SelectSeq(vals, ParsesAsFloat)
    IN  [i \in 1..Len(ok) |-> FloatOf(ok[i])]

ReachesRatioStrict(parsable, total) == parsable * 5 > total * 4

\* parsable / len(non_empty) >= 0.8 (a quotient of two small integers is the
\* double nearest 0.8 exactly when it is 4/5)
ReachesRatio(parsable, total) == parsable * 5 >= total * 4

\* the detection loop's verdict for one column
DetectedNumeric(rows, col) ==
    LET non_empty == NonEmptyValues(rows, col)
        parsed_vals == ParsedValues(non_empty)
    IN  /\ col \notin {"Type", "Equipment Name"}
        /\ non_empty # <<>>
        /\ ReachesRatio(Len(parsed_vals), Len(non_empty))
        /\ parsed_vals # <<>>

\* numeric_cols after the detection loop: (col, parsed_vals) in header order
RECURSIVE DetectFrom(_, _, _)
DetectFrom(header, rows, i) ==
    IF i > Len(header) THEN <<>>
    ELSE (IF DetectedNumeric(rows, header[i])
          THEN << <<header[i], ParsedValues(NonEmptyValues(rows, header[i]))>> >>
          ELSE <<>>) \o DetectFrom(header, rows, i + 1)

\* the fallback loop over the core three columns
RECURSIVE FallbackFrom(_, _)
FallbackFrom(rows, b) ==
    IF b > Len(BASE_COLUMNS) THEN <<>>
    ELSE LET non_empty == NonEmptyValues(rows, BASE_COLUMNS[b])
             raises == \E i \in 1..Len(non_empty) : ~ParsesAsFloat(non_empty[i])
         IN  (IF ~raises /\ non_empty # <<>>
              THEN << <<BASE_COLUMNS[b], ParsedValues(non_empty)>> >>
              ELSE <<>>) \o FallbackFrom(rows, b + 1)

NumericCols(header, rows) ==
    LET detected == DetectFrom(header, rows, 1)
    IN  IF detected = <<>> THEN FallbackFrom(rows, 1) ELSE detected

\* the keys of a dict built from (name, vals) pairs, in insertion order
RECURSIVE DictKeys(_)
DictKeys(pairs) ==
    IF pairs = <<>> THEN <<>>
    ELSE LET front == DictKeys(SubSeq(pairs, 1, Len(pairs) - 1))
             name == pairs[Len(pairs)][1]
         IN  IF name \in Range(front) THEN front ELSE Append(front, name)

\* the vals a dict comprehension over the pairs keeps for name (the last pair's)
DictVals(pairs, name) ==
    pairs[CHOOSE i \in 1..Len(pairs) :
            pairs[i][1] = name /\ \A j \in (i+1)..Len(pairs) : pairs[j][1] # name][2]

RECURSIVE SumSeq(_)
SumSeq(xs) == IF xs = <<>> THEN 0 ELSE xs[1] + SumSeq(Tail(xs))

MinOf(xs) == CHOOSE m \in Range(xs) : \A x \in Range(xs) : m <= x

MaxOf(xs) == CHOOSE m \in Range(xs) : \A x \in Range(xs) : m >= x

\* sorted(xs)
RECURSIVE Sorted(_)
Sorted(xs) ==
    IF xs = <<>> THEN <<>>
    ELSE LET m == MinOf(xs)
             p == CHOOSE i \in 1..Len(xs) : xs[i] = m
         IN  <<m>> \o Sorted(SubSeq(xs, 1, p - 1) \o SubSeq(xs, p + 1, Len(xs)))

\* a quotient is kept as the pair [num, den]
\* statistics.mean(vals)
Mean(xs) == [num |-> SumSeq(xs), den |-> Len(xs)]

\* statistics.median(vals)
Median(xs) ==
    LET s == Sorted(xs)
        n == Len(xs)
    IN  IF n % 2 = 1 THEN [num |-> s[(n + 1) \div 2], den |-> 1]
        ELSE [num |-> s[n \div 2] + s[n \div 2 + 1], den |-> 2]

\* the rows of the preview: the first 10
PreviewRows == 10

\* the text csv.writer writes for a cell: '' for None, str(v) otherwise
CsvField(v) == IF v = None THEN "" ELSE Str(v)

\* csv.DictWriter: header line, then {k: row.get(k, '')} for the first rows
Preview(header, rows) ==
    LET n == Min2(PreviewRows, Len(rows))
    IN  <<header>> \o
        [i \in 1..n |->
            [p \in 1..Len(header) |-> CsvField(GetDefault(rows[i], header[p], S("")))]]

Summary(header, rows) ==
    LET numeric_cols == NumericCols(header, rows)
        names == DictKeys(numeric_cols)
    IN  [averages |-> [c \in Range(names) |-> Mean(DictVals(numeric_cols, c))],
         median |-> [c \in Range(names) |-> Median(DictVals(numeric_cols, c))],
         min |-> [c \in Range(names) |-> MinOf(DictVals(numeric_cols, c))],
         max |-> [c \in Range(names) |-> MaxOf(DictVals(numeric_cols, c))],
         type_distribution |-> TypeDistribution(rows),
         row_count |-> Len(rows),
         numeric_columns |-> names,
         all_columns |-> header]

\* parse_and_validate(file_bytes, filename)
ParseAndValidate(f) ==
    LET tab == ReadTabular(f)
    IN  IF tab.status = "error" THEN tab
        ELSE IF SchemaRejected(tab.header) THEN MissingColumnsError(tab.header)
        ELSE LET v == ValidateFrom(tab.rows, 1, 1)
             IN  IF v.status = "error" THEN v
                 ELSE [status |-> "ok",
                       summary |-> Summary(tab.header, tab.rows),
                       preview_csv |-> Preview(tab.header, tab.rows)]

\* --------------------------------------------------------------- parse_rows
\* the loop body of parse_rows on one raw row, with rec stored under 'Record'
ConvertRowWith(header, row, rec) ==
    LET numeric == Range(header) \cap Range(BASE_COLUMNS)
    IN  [c \in DOMAIN row \cup numeric \cup {"Record"} |->
            IF c = "Record" THEN I(rec)
            ELSE IF c \in numeric
                 THEN LET v == Get(row, c)
                      IN  IF ~IsEmpty(v) /\ ParsesAsFloat(v) THEN F(FloatOf(v)) ELSE None
                 ELSE row[c]]

ConvertRowZeroBased(header, row, i) == ConvertRowWith(header, row, i - 1)

\* for i, row in enumerate(raw_rows, start=1): ...; row['Record'] = i
ConvertRow(header, row, i) == ConvertRowWith(header, row, i)

\* parse_rows(file_bytes, filename)
ParseRows(f) ==
    LET tab == ReadTabular(f)
    IN  IF tab.status = "error" THEN tab
        ELSE TabOk(tab.header,
                   [i \in 1..Len(tab.rows) |-> ConvertRow(tab.header, tab.rows[i], i)])

\* ---------------------------------------------------------- compute_quality
\* the position of a column name in sorted() order, for the names of the model
NameRank ==
    ("" :> 0) @@ ("A" :> 1) @@ ("B" :> 2) @@ ("Equipment Name" :> 3) @@
    ("Flowrate" :> 4) @@ ("Pressure" :> 5) @@ ("Record" :> 6) @@
    ("Temperature" :> 7) @@ ("Type" :> 8) @@ ("Vendor" :> 9)

\* sorted(list(names))
RECURSIVE SortedNames(_)
SortedNames(names) ==
    IF names = {} THEN <<>>
    ELSE LET m == CHOOSE x \in names : \A y \in names : NameRank[x] <= NameRank[y]
         IN  <<m>> \o SortedNames(names \ {m})

\* missing[col]: the rows whose value is None or ''
MissingValues(header, rows) ==
    [col \in Range(header) |->
        Cardinality({i \in 1..Len(rows) : IsEmpty(Get(rows[i], col))})]

\* key = tuple((col, str(r.get(col))) for col in header)
DupKeySkipNone(header, r) ==
    [p \in 1..Len(header) |->
        <<header[p], IF Get(r, header[p]) = None THEN "" ELSE Str(Get(r, header[p]))>>]

DupKey(header, r) == [p \in 1..Len(header) |-> <<header[p], Str(Get(r, header[p]))>>]

\* the samples kept of the duplicates
MaxSamples == 3

\* {c: r.get(c) for c in header}
SampleOf(header, r) == [c \in Range(header) |-> Get(r, c)]

\* the duplicate loop from row i on, with the loop's seen, dup_count, samples
RECURSIVE DupScan(_, _, _, _, _, _)
DupScan(header, rows, i, seen, dup_count, samples) ==
    IF i > Len(rows) THEN [count |-> dup_count, samples |-> samples]
    ELSE LET key == DupKey(header, rows[i])
         IN  IF key \in seen
             THEN DupScan(header, rows, i + 1, seen, dup_count + 1,
                          IF Len(samples) < MaxSamples
                          THEN Append(samples, SampleOf(header, rows[i]))
                          ELSE samples)
             ELSE DupScan(header, rows, i + 1, seen \cup {key}, dup_count, samples)

DuplicateRows(header, rows) == DupScan(header, rows, 1, {}, 0, <<>>)

\* vals of the ranges loop: [] when a non-empty value of the column raises
RangeValues(rows, col) ==
    LET non_empty == NonEmptyValues(rows, col)
    IN  IF \E i \in 1..Len(non_empty) : ~ParsesAsFloat(non_empty[i])
        THEN <<>>
        ELSE ParsedValues(non_empty)

Ranges(header, rows) ==
    [col \in {c \in Range(header) : RangeValues(rows, c) # <<>>} |->
        [min |-> MinOf(RangeValues(rows, col)), max |-> MaxOf(RangeValues(rows, col))]]

\* infer_column_types(header, rows)
InferColumnTypes(header, rows) ==
    [col \in Range(header) \ {"Record"} |->
        IF \A i \in 1..Len(rows) :
              IsEmpty(Get(rows[i], col)) \/ ParsesAsFloat(Get(rows[i], col))
        THEN "numeric" ELSE "string"]

\* previous_headers is [given |-> FALSE] for None, else [given |-> TRUE, cols |-> list]
NoPrevious == [given |-> FALSE]

Previous(cols) == [given |-> TRUE, cols |-> cols]

SchemaDriftSwapped(header, previous_headers) ==
    IF previous_headers.given /\ previous_headers.cols # <<>>
    THEN LET prev == Range(previous_headers.cols)
             cur == Range(header)
         IN  [added_columns |-> SortedNames(prev \ cur),
              removed_columns |-> SortedNames(cur \ prev),
              unchanged_columns |-> SortedNames(cur \cap prev)]
    ELSE [x \in {} |-> x]

\* drift: {} (the function of empty domain) unless previous_headers is truthy
SchemaDrift(header, previous_headers) ==
    IF previous_headers.given /\ previous_headers.cols # <<>>
    THEN LET prev == Range(previous_headers.cols)
             cur == Range(header)
         IN  [added_columns |-> SortedNames(cur \ prev),
              removed_columns |-> SortedNames(prev \ cur),
              unchanged_columns |-> SortedNames(cur \cap prev)]
    ELSE [x \in {} |-> x]

\* compute_quality(header, rows, previous_headers): the returned report
ComputeQuality(header, rows, previous_headers) ==
    [missing_values |-> MissingValues(header, rows),
     duplicate_rows |-> DuplicateRows(header, rows),
     ranges |-> Ranges(header, rows),
     column_types |-> InferColumnTypes(header, rows),
     schema_drift |-> SchemaDrift(header, previous_headers)]

\* the rows whose key was seen in an earlier row
IsDuplicateAt(header, rows, i) ==
    \E j \in 1..(i - 1) : DupKey(header, rows[j]) = DupKey(header, rows[i])

ArgsAfterDroppingDuplicates(header, rows) ==
    LET Kept(i) == ~IsDuplicateAt(header, rows, i)
        idx == SelectSeq([i \in 1..Len(rows) |-> i], Kept)
    IN  <<header, [p \in 1..Len(idx) |-> rows[idx[p]]]>>

\* the caller's (header, rows) when compute_quality returns: it assigns to no
\* key of a row and calls no mutating method on either argument
QualityArgsAfter(header, rows) == <<header, rows>>

\* ----------------------------------------------------- compute_correlations
\* np.nan
NaN == [k |-> "nan"]

\* a correlation coefficient r that is not nan: its sign and r * r = num / den
\* in lowest terms
Coef(sign, num, den) == [k |-> "float", sign |-> sign, num |-> num, den |-> den]

\* the coefficients 1.0 and -1.0
PlusOne == Coef(1, 1, 1)

MinusOne == Coef(-1, 1, 1)

Sign(x) == IF x > 0 THEN 1 ELSE IF x < 0 THEN -1 ELSE 0

Abs(x) == IF x < 0 THEN -x ELSE x

RECURSIVE GCD(_, _)
GCD(a, b) == IF b = 0 THEN a ELSE GCD(b, a % b)

\* float(v) is nan
IsNaN(v) == v.k = "str" /\ v.s \in NaNLiterals

\* an empty cell counted as 0.0 instead of nan
DataCellZero(v) == IF IsNaN(v) THEN NaN ELSE IF IsEmpty(v) THEN F(0) ELSE F(FloatOf(v))

\* float(r.get(c)) if r.get(c) not in (None, '') else np.nan
DataCell(v) == IF IsEmpty(v) \/ IsNaN(v) THEN NaN ELSE F(FloatOf(v))

\* the entry of data for the row r: one cell per requested column, or nan in
\* every column when float() raises on one of them
DataRow(r, numeric_cols) ==
    IF \E i \in 1..Len(numeric_cols) :
          /\ ~IsEmpty(Get(r, numeric_cols[i]))
          /\ ~ParsesAsFloat(Get(r, numeric_cols[i]))
    THEN [i \in 1..Len(numeric_cols) |-> NaN]
    ELSE [i \in 1..Len(numeric_cols) |-> DataCell(Get(r, numeric_cols[i]))]

\* arr[~np.isnan(arr).any(axis=1)] of the data built from rows
CompleteData(rows, numeric_cols) ==
    LET data == [i \in 1..Len(rows) |-> DataRow(rows[i], numeric_cols)]
        NoNaN(d) == \A i \in 1..Len(d) : d[i] # NaN
    IN  SelectSeq(data, NoNaN)

\* the column i of arr, as numbers
Column(arr, i) == [r \in 1..Len(arr) |-> arr[r][i].n]

\* n * sum(x * y) - sum(x) * sum(y): the covariance of xs and ys times n * n
Cov(xs, ys) ==
    Len(xs) * SumSeq([r \in 1..Len(xs) |-> xs[r] * ys[r]]) - SumSeq(xs) * SumSeq(ys)

\* the entry of np.corrcoef for two columns: cov / (std * std), nan when a
\* column has zero variance (0 / 0)
Pearson(xs, ys) ==
    LET sxy == Cov(xs, ys)
        sxx == Cov(xs, xs)
        syy == Cov(ys, ys)
        g == GCD(sxy * sxy, sxx * syy)
    IN  IF sxx = 0 \/ syy = 0 THEN NaN
        ELSE Coef(Sign(sxy), (sxy * sxy) \div g, (sxx * syy) \div g)

\* np.corrcoef(arr, rowvar=False).tolist(): a list of lists for two columns or
\* more, the bare coefficient (a 0-d array) for a single column
CorrCoef(arr, n) ==
    IF n = 1 THEN Pearson(Column(arr, 1), Column(arr, 1))
    ELSE L([i \in 1..n |-> L([j \in 1..n |-> Pearson(Column(arr, i), Column(arr, j))])])

\* the pairs (i, j) with i < j, in the order of the two loops
RECURSIVE PairsFrom(_, _, _)
PairsFrom(i, j, n) ==
    IF i >= n THEN <<>>
    ELSE IF j > n THEN PairsFrom(i + 1, i + 2, n)
    ELSE <<<<i, j>>>> \o PairsFrom(i, j + 1, n)

\* pairs before the sort: ((numeric_cols[i], numeric_cols[j]), float(corr[i,j]))
Pairs(arr, numeric_cols) ==
    LET ij == PairsFrom(1, 2, Len(numeric_cols))
    IN  [p \in 1..Len(ij) |->
            [cols |-> <<numeric_cols[ij[p][1]], numeric_cols[ij[p][2]]>>,
             corr |-> Pearson(Column(arr, ij[p][1]), Column(arr, ij[p][2]))]]

\* the signed coefficient as the sort key: a.corr > b.corr
SignedKeyGreater(a, b) ==
    IF a.corr.sign >= 0 /\ b.corr.sign >= 0
    THEN a.corr.num * b.corr.den > b.corr.num * a.corr.den
    ELSE IF a.corr.sign < 0 /\ b.corr.sign < 0
    THEN a.corr.num * b.corr.den < b.corr.num * a.corr.den
    ELSE a.corr.sign > b.corr.sign

\* key=lambda x: abs(x[1]): abs(a.corr) > abs(b.corr), for coefficients that
\* are not nan
KeyGreater(a, b) == a.corr.num * b.corr.den > b.corr.num * a.corr.den

\* p put after every entry whose key is not smaller
InsertByKey(p, sorted) ==
    LET after == {i \in 1..Len(sorted) : KeyGreater(p, sorted[i])}
        at == IF after = {} THEN Len(sorted) + 1
              ELSE CHOOSE i \in after : \A j \in after : i <= j
    IN  SubSeq(sorted, 1, at - 1) \o <<p>> \o SubSeq(sorted, at, Len(sorted))

\* the first n entries of pairs, sorted by decreasing key, equal keys in their
\* original order
RECURSIVE StableSorted(_, _)
StableSorted(pairs, n) ==
    IF n = 0 THEN <<>> ELSE InsertByKey(pairs[n], StableSorted(pairs, n - 1))

Orders(seq) ==
    {[i \in 1..Len(seq) |-> seq[f[i]]] :
        f \in {g \in [1..Len(seq) -> 1..Len(seq)] : \A i, j \in 1..Len(seq) : g[i] = g[j] => i = j}}

\* pairs.sort(key=lambda x: abs(x[1]), reverse=True): the stable order; with a
\* nan key every comparison is false and the order depends on the sort's
\* internals, so every order is possible
SortOutcomes(pairs) ==
    IF \E i \in 1..Len(pairs) : pairs[i].corr = NaN THEN Orders(pairs)
    ELSE {StableSorted(pairs, Len(pairs))}

\* pairs[:3]
StrongestKept == 3

\* compute_correlations(rows, numeric_cols): the results the call can return
ComputeCorrelations(rows, numeric_cols) ==
    LET arr == CompleteData(rows, numeric_cols)
    IN  IF Len(arr) < 2
        THEN {[matrix |-> L(<<>>), order |-> numeric_cols, strongest_pairs |-> <<>>]}
        ELSE {[matrix |-> CorrCoef(arr, Len(numeric_cols)),
               order |-> numeric_cols,
               strongest_pairs |-> SubSeq(sorted, 1, Min2(StrongestKept, Len(sorted)))] :
                 sorted \in SortOutcomes(Pairs(arr, numeric_cols))}

\* ------------------------------------------- desktop: _compute_outliers
\* s.lower(), on the strings of the model that carry capitals
LowerTable == ("NaN" :> "nan")

Lower(s) == IF s \in DOMAIN LowerTable THEN LowerTable[s] ELSE s

\* the words visualization.py takes for a missing value
NullWords == {"nan", "null", "none", ""}

\* VisualizationWidget._to_float of visualization.py: the number, or None
ToFloat(value) ==
    IF value.k \in {"int", "float"} THEN F(value.n)
    ELSE IF value.k = "str"
    THEN LET stripped == Strip(value.s)
         IN  IF stripped = "" \/ Lower(stripped) \in NullWords THEN None
             ELSE IF stripped \in DOMAIN FloatLiterals THEN F(FloatLiterals[stripped])
             ELSE None
    ELSE None

\* _to_float of visualization_fixed.py
ToFloatFixed(v) ==
    IF v.k \in {"int", "float"} THEN F(v.n)
    ELSE IF v.k = "str"
    THEN LET s == Strip(v.s)
         IN  IF s = "" THEN None
             ELSE IF s \in DOMAIN FloatLiterals THEN F(FloatLiterals[s])
             ELSE None
    ELSE None

\* np.percentile(arr, 25 * quarter, method='linear') of a sorted arr, in
\* quarters: the value at the index quarter * (n - 1) / 4, interpolated
Percentile(arr, quarter) ==
    LET pos == quarter * (Len(arr) - 1)
        lo == pos \div 4 + 1
        rem == pos % 4
    IN  [num |-> IF rem = 0 THEN 4 * arr[lo]
                 ELSE 4 * arr[lo] + rem * (arr[lo + 1] - arr[lo]),
         den |-> 4]

\* _quartiles(values), for a non-empty list of finite numbers
Quartiles(values) ==
    LET arr == Sorted(values)
    IN  [min |-> arr[1], q1 |-> Percentile(arr, 1), q2 |-> Percentile(arr, 2),
         q3 |-> Percentile(arr, 3), max |-> arr[Len(arr)]]

\* IQR_MULTIPLIER = 1.5
IQR_MULTIPLIER == [num |-> 3, den |-> 2]

\* q1 - IQR_MULTIPLIER * iqr
LowerBound(q) ==
    [num |-> q.q1.num * IQR_MULTIPLIER.den - IQR_MULTIPLIER.num * (q.q3.num - q.q1.num),
     den |-> 4 * IQR_MULTIPLIER.den]

\* q3 + IQR_MULTIPLIER * iqr
UpperBound(q) ==
    [num |-> q.q3.num * IQR_MULTIPLIER.den + IQR_MULTIPLIER.num * (q.q3.num - q.q1.num),
     den |-> 4 * IQR_MULTIPLIER.den]

\* the float 0.0 of the entry of a short column
ZeroBound == [num |-> 0, den |-> 1]

\* a value on a bound counted as an outlier
IsOutlierInclusive(v, lb, ub) == v * lb.den <= lb.num \/ v * ub.den >= ub.num

\* v < lower_bound or v > upper_bound
IsOutlier(v, lb, ub) == v * lb.den < lb.num \/ v * ub.den > ub.num

OutlierKeyFromLower(v, lb, ub) == v * lb.den - lb.num

\* max(abs(v - lower_bound), abs(v - upper_bound)), times the denominator of
\* the bounds
OutlierKey(v, lb, ub) ==
    LET a == Abs(v * lb.den - lb.num)
        b == Abs(v * ub.den - ub.num)
    IN  IF a >= b THEN a ELSE b

\* v put after every entry whose key is not smaller
InsertOutlier(v, sorted, lb, ub) ==
    LET after == {i \in 1..Len(sorted) : OutlierKey(v, lb, ub) > OutlierKey(sorted[i], lb, ub)}
        at == IF after = {} THEN Len(sorted) + 1
              ELSE CHOOSE i \in after : \A j \in after : i <= j
    IN  SubSeq(sorted, 1, at - 1) \o <<v>> \o SubSeq(sorted, at, Len(sorted))

\* sorted(values, key=..., reverse=True) of the first n values: by decreasing
\* key, equal keys in their original order
RECURSIVE SortedOutliers(_, _, _, _)
SortedOutliers(values, n, lb, ub) ==
    IF n = 0 THEN <<>>
    ELSE InsertOutlier(values[n], SortedOutliers(values, n - 1, lb, ub), lb, ub)

\* len(col_values) < 4
MinValues == 4

\* outlier_values[:8]
MaxShown == 8

\* the results of _to_float that are not None, in row order
ColValues(cells) ==
    LET kept == SelectSeq(cells, LAMBDA v : v # None)
    IN  [i \in 1..Len(kept) |-> kept[i].n]

\* the entry of a column with four values or more
OutlierEntry(col_values) ==
    LET q == Quartiles(col_values)
        lb == LowerBound(q)
        ub == UpperBound(q)
        out == SelectSeq(col_values, LAMBDA v : IsOutlier(v, lb, ub))
        outlier_values == SortedOutliers(out, Len(out), lb, ub)
    IN  [lb |-> lb, ub |-> ub,
         values |-> SubSeq(outlier_values, 1, Min2(MaxShown, Len(outlier_values))),
         count |-> Len(outlier_values)]

\* _compute_outliers(rows, numeric_cols) of visualization.py
ComputeOutliers(rows, numeric_cols) ==
    [col \in Range(numeric_cols) |->
        LET col_values == ColValues([i \in 1..Len(rows) |-> ToFloat(Get(rows[i], col))])
        IN  IF Len(col_values) < MinValues
            THEN [lb |-> ZeroBound, ub |-> ZeroBound, values |-> <<>>, count |-> 0]
            ELSE OutlierEntry(col_values)]

\* _compute_outliers(rows, numeric_cols) of visualization_fixed.py
ComputeOutliersFixed(rows, numeric_cols) ==
    [col \in Range(numeric_cols) |->
        LET vals == ColValues([i \in 1..Len(rows) |-> ToFloatFixed(Get(rows[i], col))])
        IN  IF Len(vals) < MinValues
            THEN [lb |-> ZeroBound, ub |-> ZeroBound, values |-> <<>>]
            ELSE OutlierEntry(vals)]

\* -------------------------------------------------- detect_anomalies_zscore
\* isinstance(v, (int, float))
IsNumber(v) == v.k \in {"int", "float"}

\* vals = [r[col] for r in rows if isinstance(r.get(col), (int, float))]
NumericVals(rows, col) ==
    LET kept == SelectSeq(rows, LAMBDA r : IsNumber(Get(r, col)))
    IN  [i \in 1..Len(kept) |-> kept[i][col].n]

\* n * sum(v * v) - sum(v) * sum(v): the sum of the squared deviations, times n
SumSquares(vals) == Cov(vals, vals)

\* the variance with the divisor n - 1
SampleVariance(vals) ==
    IF Len(vals) > 1
    THEN [num |-> SumSquares(vals), den |-> Len(vals) * (Len(vals) - 1)]
    ELSE [num |-> 0, den |-> 1]

\* var = mean([(v - mu) ** 2 for v in vals]) if len(vals) > 1 else 0.0
Variance(vals) ==
    IF Len(vals) > 1
    THEN [num |-> SumSquares(vals), den |-> Len(vals) * Len(vals)]
    ELSE [num |-> 0, den |-> 1]

\* sqrt(var), kept as the number it is the root of
Sqrt(var) == [root_of |-> var]

\* z > 3
ZThreshold == 3

\* the same for z > 2
ZMarginAtTwo(v, vals) ==
    LET n == Len(vals)
        d == n * v - SumSeq(vals)
        var == Variance(vals)
    IN  d * d * var.den - 4 * var.num * n * n

\* (v - mu) ** 2 minus (3 * std) ** 2, times positive factors: its sign tells
\* on which side of 3 the exact z of v lies
ZMargin(v, vals) ==
    LET n == Len(vals)
        d == n * v - SumSeq(vals)
        var == Variance(vals)
    IN  d * d * var.den - ZThreshold * ZThreshold * var.num * n * n

\* stats, for the columns with a numeric value
AnomalyStats(rows, numeric_cols) ==
    [col \in {c \in Range(numeric_cols) : NumericVals(rows, c) # <<>>} |->
        [mean |-> Mean(NumericVals(rows, col)),
         std |-> Sqrt(Variance(NumericVals(rows, col)))]]

\* the (column, value) whose exact z is 3: the z the code computes in floats
\* lies within a rounding error of 3, on either side
ZTies(rows, numeric_cols) ==
    {<<col, v>> \in Range(numeric_cols) \X UNION {Range(NumericVals(rows, c)) : c \in Range(numeric_cols)} :
        /\ v \in Range(NumericVals(rows, col))
        /\ Variance(NumericVals(rows, col)).num # 0
        /\ ZMargin(v, NumericVals(rows, col)) = 0}

\* anomalies, the ties in above being those computed above 3
Anomalies(rows, numeric_cols, above) ==
    {r["Record"].n : r \in
        {r \in Range(rows) : \E col \in Range(numeric_cols) :
            /\ IsNumber(Get(r, col))
            /\ Variance(NumericVals(rows, col)).num # 0
            /\ \/ ZMargin(r[col].n, NumericVals(rows, col)) > 0
               \/ <<col, r[col].n>> \in above}}

\* detect_anomalies_zscore(rows, numeric_cols): the results the call can return
DetectAnomaliesZscore(rows, numeric_cols) ==
    {[anomalies |-> Anomalies(rows, numeric_cols, above),
      stats |-> AnomalyStats(rows, numeric_cols)] :
        above \in SUBSET ZTies(rows, numeric_cols)}

\* --------------------------------------------------------- kmeans_clusters
\* float(r.get(c)) raises for no requested column c
FeaturesParse(r, numeric_cols) ==
    \A j \in 1..Len(numeric_cols) : ParsesAsFloat(Get(r, numeric_cols[j]))

\* the rows that reach X.append(row_vals) and rec_ids.append(r['Record'])
KeptRows(rows, numeric_cols) ==
    SelectSeq(rows, LAMBDA r : FeaturesParse(r, numeric_cols) /\ "Record" \in DOMAIN r)

\* float(v), nan included
FeatureCell(v) == IF IsNaN(v) THEN NaN ELSE F(FloatOf(v))

\* X after the loop over rows
FeatureMatrix(rows, numeric_cols) ==
    LET kept == KeptRows(rows, numeric_cols)
    IN  [i \in 1..Len(kept) |->
            [j \in 1..Len(numeric_cols) |-> FeatureCell(Get(kept[i], numeric_cols[j]))]]

\* the Record of every row, kept or not
RecIdsOfAllRows(rows, numeric_cols) == [i \in 1..Len(rows) |-> rows[i]["Record"].n]

\* rec_ids after the loop over rows
RecIds(rows, numeric_cols) ==
    LET kept == KeptRows(rows, numeric_cols)
    IN  [i \in 1..Len(kept) |-> kept[i]["Record"].n]

\* sklearn's KMeans is a library: a fit with k clusters is taken to be any
\* labelling of the points with 0..k-1 that gives equal points equal labels
\* and uses every label when there are k distinct points or more
Labellings(X, k) ==
    {f \in [1..Len(X) -> 0..(k - 1)] :
        /\ \A i, j \in 1..Len(X) : X[i] = X[j] => f[i] = f[j]
        /\ Cardinality(Range(X)) >= k => \A c \in 0..(k - 1) : \E i \in 1..Len(X) : f[i] = c}

\* the sum of the feature j over the points labelled c, and their number
ClusterSum(X, f, c, j) == SumSeq([i \in 1..Len(X) |-> IF f[i] = c THEN X[i][j].n ELSE 0])

ClusterSize(X, f, c) == Cardinality({i \in 1..Len(X) : f[i] = c})

RECURSIVE Factorial(_)
Factorial(n) == IF n <= 1 THEN 1 ELSE n * Factorial(n - 1)

\* km.inertia_: the sum over the clusters of the squared distances of their
\* points to their mean, as a quotient with the denominator n!
Inertia(X, f, k) ==
    LET d == Factorial(Len(X))
        m == Len(X[1])
        squares(c) == SumSeq([i \in 1..Len(X) |->
                         IF f[i] = c THEN SumSeq([j \in 1..m |-> X[i][j].n * X[i][j].n]) ELSE 0])
        sums(c) == SumSeq([j \in 1..m |-> ClusterSum(X, f, c, j) * ClusterSum(X, f, c, j)])
        sse(c) == IF ClusterSize(X, f, c) = 0 THEN 0
                  ELSE d * squares(c) - (d \div ClusterSize(X, f, c)) * sums(c)
    IN  [num |-> SumSeq([c \in 1..k |-> sse(c - 1)]), den |-> d]

\* the centre of a cluster without points: one of the points, left open
SomePoint == [k |-> "point"]

\* km.cluster_centers_.tolist(): the mean of each cluster
Centroids(X, f, k) ==
    L([c \in 1..k |->
        IF ClusterSize(X, f, c - 1) = 0 THEN SomePoint
        ELSE L([j \in 1..Len(X[1]) |->
                  [num |-> ClusterSum(X, f, c - 1, j), den |-> ClusterSize(X, f, c - 1)]])])

\* the outcomes of KMeans(n_clusters=k, n_init=10, random_state=42).fit(X)
Fits(X, k) ==
    {[labels |-> L(f), centroids |-> Centroids(X, f, k), inertia |-> Inertia(X, f, k)] :
        f \in Labellings(X, k)}

\* max_k=4
DefaultMaxK == 4

\* the k tried: range(2, min(max_k, len(X)) + 1)
Swept(X, max_k) == 2..Min2(max_k, Len(X))

\* the inertia each k of the sweep can give (all over the same denominator)
Sweeps(fits) ==
    {sweep \in [DOMAIN fits -> UNION {{fit.inertia.num : fit \in fits[o]} : o \in DOMAIN fits}] :
        \A o \in DOMAIN fits : \E fit \in fits[o] : fit.inertia.num = sweep[o]}

\* the last k with the lowest inertia
LastBestK(sweep) ==
    CHOOSE k \in DOMAIN sweep :
        /\ \A o \in DOMAIN sweep : o < k => sweep[o] >= sweep[k]
        /\ \A o \in DOMAIN sweep : o > k => sweep[o] > sweep[k]

\* best_k after the loop: k replaces the best one only when inertia <
\* best_inertia, so the first k with the lowest inertia stays
BestK(sweep) ==
    CHOOSE k \in DOMAIN sweep :
        /\ \A o \in DOMAIN sweep : o < k => sweep[o] > sweep[k]
        /\ \A o \in DOMAIN sweep : o > k => sweep[o] >= sweep[k]

\* kmeans_clusters(rows, numeric_cols, max_k): the outcomes of the call, with
\* the inertia of the fit of each k tried
KMeansClusters(rows, numeric_cols, max_k) ==
    LET X == FeatureMatrix(rows, numeric_cols)
        rec_ids == RecIds(rows, numeric_cols)
        fits == [o \in Swept(X, max_k) |-> Fits(X, o)]
    IN  IF Len(X) < 2
        THEN {[status |-> "ok", sweep |-> <<>>,
               result |-> [k |-> 0, labels |-> L(<<>>), rec_ids |-> <<>>, centroids |-> L(<<>>)]]}
        ELSE IF Swept(X, max_k) = {}
        THEN {[status |-> "ok", sweep |-> <<>>,
               result |-> [k |-> 2, labels |-> None, rec_ids |-> rec_ids, centroids |-> None]]}
        ELSE IF \E i \in 1..Len(X) : \E j \in 1..Len(X[i]) : X[i][j] = NaN
        THEN {[status |-> "raised"]}
        ELSE UNION {{[status |-> "ok", sweep |-> sweep,
                      result |-> [k |-> BestK(sweep), labels |-> fit.labels, rec_ids |-> rec_ids,
                                  centroids |-> fit.centroids]] :
                        fit \in {f \in fits[BestK(sweep)] : f.inertia.num = sweep[BestK(sweep)]}} :
                    sweep \in Sweeps(fits)}

\* ------------------------------------------------ compute_variance_skewness
\* float(v) in tenths, for a v that parses and is not nan
Tenths(v) ==
    IF v.k = "str" /\ v.s \in DOMAIN DecimalLiterals THEN DecimalLiterals[v.s]
    ELSE 10 * FloatOf(v)

\* the rows with r.get(c) not in (None, '')
SkewCells(rows, c) ==
    LET kept == SelectSeq(rows, LAMBDA r : ~IsEmpty(Get(r, c)))
    IN  [i \in 1..Len(kept) |-> Get(kept[i], c)]

\* vals = [float(r.get(c)) for ...], in tenths, of cells that parse without nan
SkewVals(cells) == [i \in 1..Len(cells) |-> Tenths(cells[i])]

\* sum((n * v - sum(vals)) ** 3): the sum of the cubed deviations, times n ** 3
SumCubes(vals) ==
    SumSeq([i \in 1..Len(vals) |->
               (Len(vals) * vals[i] - SumSeq(vals)) * (Len(vals) * vals[i] - SumSeq(vals))
                   * (Len(vals) * vals[i] - SumSeq(vals))])

\* np.mean of n equal floats v (in tenths) computed in doubles, compared with
\* v: the sum of three 0.1 is 0.30000000000000004 and a third of it is
\* 0.10000000000000002; whole numbers and their sums are exact
MeanAbove == {<<1, 3>>}

MeanBelow == {<<1, 6>>, <<1, 7>>}

\* the sign of np.mean(vals) - v for equal vals
MeanRounding(vals) ==
    IF <<vals[1], Len(vals)>> \in MeanAbove THEN 1
    ELSE IF <<vals[1], Len(vals)>> \in MeanBelow THEN -1
    ELSE 0

\* a float that is exactly 0.0
IsZeroFloat(x) == x.k = "float" /\ x.num = 0

\* std = np.std(vals) or 1e-9
Epsilon == [eps |-> 9]

\* np.var(vals) of equal vals whose float mean is not the common value: every
\* deviation is the rounding error of the mean, the variance its square
Tiny == [k |-> "float", num |-> 1, den |-> 1, unit |-> "rounding error squared"]

\* np.var(vals), for two vals or more: the population variance; of equal vals
\* it is 0.0 only when their float mean is exact
SkewVariance(vals) ==
    IF SumSquares(vals) = 0 /\ MeanRounding(vals) # 0 THEN Tiny
    ELSE [k |-> "float", num |-> SumSquares(vals), den |-> Len(vals) * Len(vals) * 100]

\* float(np.mean(((np.array(vals) - mean_v) / std) ** 3)): the mean cubed
\* deviation num / den over the cube of std. Equal deviations d over
\* std = |d| give the sign of d
Skewness(vals) ==
    IF SumSquares(vals) = 0 /\ MeanRounding(vals) # 0
    THEN [k |-> "float", num |-> 0 - MeanRounding(vals), den |-> 1,
          std |-> Sqrt([num |-> 1, den |-> 1])]
    ELSE [k |-> "float", num |-> SumCubes(vals), den |-> Len(vals) * Len(vals) * Len(vals) * Len(vals) * 1000,
          std |-> IF SumSquares(vals) = 0 THEN Epsilon ELSE Sqrt(SkewVariance(vals))]

ZeroFloat == [k |-> "float", num |-> 0, den |-> 1]

\* the entry of a column with cells that all parse
SkewEntry(cells) ==
    IF Len(cells) >= 2
    THEN IF \E i \in 1..Len(cells) : IsNaN(cells[i])
         THEN [variance |-> NaN, skewness |-> NaN]
         ELSE [variance |-> SkewVariance(SkewVals(cells)), skewness |-> Skewness(SkewVals(cells))]
    ELSE [variance |-> ZeroFloat, skewness |-> ZeroFloat]

\* compute_variance_skewness(rows, numeric_cols): float() raises on a value
\* that is neither empty nor a number
ComputeVarianceSkewness(rows, numeric_cols) ==
    IF \E c \in Range(numeric_cols) : \E i \in 1..Len(SkewCells(rows, c)) :
           ~ParsesAsFloat(SkewCells(rows, c)[i])
    THEN [status |-> "raised", error |-> "ValueError"]
    ELSE [status |-> "ok",
          stats |-> [c \in {d \in Range(numeric_cols) : SkewCells(rows, d) # <<>>} |->
                        SkewEntry(SkewCells(rows, c))]]

\* ---------------------------------------------------------------- build_pdf
\* numeric_cols = summary.get("numeric_columns") or [c for c in header if c
\* not in ("Type", "Equipment Name")], without "Record" and "record"
ReportColumns(summary, header) ==
    LET listed == IF summary.numeric_columns # <<>> THEN summary.numeric_columns
                  ELSE SelectSeq(header, LAMBDA c : c \notin {"Type", "Equipment Name"})
    IN  SelectSeq(listed, LAMBDA c : c \notin {"Record", "record"})

\* ------------------------------------------- desktop: the analytics thread
\* self.analytics_thread is not None and self.analytics_thread.isRunning()
IsRunning(w) ==
    w.analytics_thread # 0 /\ w.threads[w.analytics_thread].state = "running"

\* AnalyticsFetchThread.run reaches self.loaded.emit(payload): the signal of a
\* worker thread is queued for the thread of the widget, and run returns
Emitted(w, t, failed) ==
    [w EXCEPT !.threads[t].state = "finished",
              !.events = Append(w.events, [dataset_id |-> w.threads[t].dataset_id,
                                           error |-> failed])]

\* what the running thread has done when _start_analytics goes on, in
\* visualization.py: wait returns because run returned, or after 2 s with the
\* thread still running
AfterWait(w) ==
    IF IsRunning(w)
    THEN {w} \cup {Emitted(w, w.analytics_thread, failed) : failed \in BOOLEAN}
    ELSE {w}

\* the same in visualization_fixed.py: terminate() stops the thread before it
\* emits
AfterTerminate(w) ==
    IF IsRunning(w)
    THEN {[w EXCEPT !.threads[w.analytics_thread].state = "terminated"]}
    ELSE {w}

\* self.analytics_thread = AnalyticsFetchThread(self.api_client, dataset_id,
\* ...); loaded.connect(self._on_analytics_loaded); start()
Started(w) ==
    [w EXCEPT !.threads = Append(w.threads, [dataset_id |-> w.current_dataset,
                                             state |-> "running"]),
              !.analytics_thread = Len(w.threads) + 1]

\* _start_analytics(), for a current_dataset with an id
StartAnalytics(w) ==
    {Started(v) : v \in IF w.impl = "visualization" THEN AfterWait(w) ELSE AfterTerminate(w)}

\* load_dataset(dataset), for a dataset with an id and numeric columns
LoadDataset(w, dataset) ==
    StartAnalytics([w EXCEPT !.current_dataset = dataset, !.loads = w.loads + 1])

\* _on_analytics_loaded(payload): an error is rendered; otherwise the rows of
\* the payload are stored in _analytics_rows and the panels rendered with the
\* summary of current_dataset
OnAnalyticsLoaded(w, payload) ==
    IF payload.error THEN w
    ELSE [w EXCEPT !.analytics_rows = payload.dataset_id,
                   !.rendered = <<[fetched_for |-> payload.dataset_id,
                                   current_dataset |-> w.current_dataset]>>]

\* ------------------------------------------------------------------- state
VARIABLES
    file,       \* the uploaded file: kind (by extension), decodable, grid of cells
    tab,        \* what _read_tabular returned or raised
    pv,         \* what parse_and_validate returned or raised
    pr,         \* what parse_rows returned or raised (status only)
    header,     \* the caller's header, as returned by parse_rows
    rows,       \* the caller's rows, as returned by parse_rows
    quality,    \* the reports of the successive compute_quality runs
    previous,   \* the previous_headers argument of the last compute_quality run
    corr,       \* the call and result of compute_correlations
    outliers,   \* the call and result of _compute_outliers
    anomalies,  \* the call and result of detect_anomalies_zscore
    clusters,   \* the call and result of kmeans_clusters
    skew,       \* the call and result of compute_variance_skewness
    widget      \* the VisualizationWidget: its dataset, fetch threads and queued signals

vars == <<file, tab, pv, pr, header, rows, quality, previous, corr, outliers, anomalies, clusters, skew, widget>>

NotCalled == [status |-> "none"]

\* no widget was built
NoWidget == [impl |-> "none"]

\* ------------------------------------------------------------------ inputs
SeqsUpTo(set, n) == UNION {[1..k -> set] : k \in 0..n}

Prefixes(seq, n) == {SubSeq(seq, 1, k) : k \in 0..Min2(n, Len(seq))}

CsvFile(grid) == [kind |-> "csv", decodable |-> TRUE, grid |-> grid]

XlsxFile(grid) == [kind |-> "xlsx", decodable |-> TRUE, grid |-> grid]

Undecodable == {[kind |-> k, decodable |-> FALSE, grid |-> <<>>] : k \in {"csv", "xlsx"}}

\* files of the reader: no header row, blank, padded and repeated header cells,
\* data rows shorter and longer than the header
ReaderFiles(n) ==
    Undecodable \cup {CsvFile(<<>>), XlsxFile(<<>>)}
    \cup {CsvFile(<<h>> \o body) :
            h \in SeqsUpTo({S("A"), S("B"), S("")}, n),
            body \in SeqsUpTo(Prefixes(<<S("1"), S("2"), S("3"), S("4"), S("7")>>,
                                       n + 1), 1)}
    \cup {XlsxFile(<<h>> \o body) :
            h \in SeqsUpTo({S("A"), S(" A "), S("B"), None}, n),
            body \in SeqsUpTo(Prefixes(<<F(1), F(2), F(3), F(4), F(7)>>,
                                       n + 1), 1)}

AllColumns == REQUIRED_COLUMNS \o <<"Vendor">>

\* the columns of AllColumns a mask keeps, in order
Masked(mask) ==
    LET Keep(i) == mask[i]
        idx == SelectSeq([i \in 1..Len(AllColumns) |-> i], Keep)
    IN  [p \in 1..Len(idx) |-> S(AllColumns[idx[p]])]

FileOfKind(kind, grid) == [kind |-> kind, decodable |-> TRUE, grid |-> grid]

\* files whose header is any sub-list of the columns, with rows of floats and
\* rows of words
SchemaFiles(n) ==
    UNION {{FileOfKind(kind, <<Masked(mask)>> \o body) :
                body \in SeqsUpTo({[i \in 1..Len(Masked(mask)) |-> v] : v \in {S("10"), S("abc")}}, n)} :
           mask \in [1..Len(AllColumns) -> BOOLEAN], kind \in {"csv", "xlsx"}}

RequiredHeader == [i \in 1..Len(REQUIRED_COLUMNS) |-> S(REQUIRED_COLUMNS[i])]

\* files with every required column whose base numeric cells vary
NumericFiles(n) ==
    {CsvFile(<<RequiredHeader>> \o body) :
        body \in SeqsUpTo({<<S("P1"), S("Pump"), f, p, t>> :
                              f \in {S("10"), S(""), S("abc")},
                              p \in {S("12"), S(""), S("abc")},
                              t \in {S(" 7 "), S("x")}}
                          \cup {<<S("P1"), S("Pump")>>}, n)}
    \cup
    {XlsxFile(<<RequiredHeader>> \o body) :
        body \in SeqsUpTo({<<S("P1"), S("Pump"), f, p, t>> :
                              f \in {F(10), None, S("abc")},
                              p \in {I(12), S(""), S("abc")},
                              t \in {None, S("x")}}
                          \cup {<<S("P1"), S("Pump")>>}, n)}

\* files with every required column whose Type cell varies or is absent
TypeFiles(n) ==
    {CsvFile(<<RequiredHeader>> \o body) :
        body \in SeqsUpTo({<<S("P1"), t, S("10"), S("12"), S("7")>> :
                              t \in {S("Pump"), S("Valve"), S("")}}
                          \cup {<<S("P1")>>}, n)}
    \cup
    {XlsxFile(<<RequiredHeader>> \o body) :
        body \in SeqsUpTo({<<S("P1"), t, F(10), F(12), F(7)>> :
                              t \in {S("Pump"), S("Valve"), None}}
                          \cup {<<S("P1")>>}, n)}

VendorHeader == [i \in 1..Len(AllColumns) |-> S(AllColumns[i])]

\* files with one more column whose share of parseable values varies
InferFiles(n) ==
    {CsvFile(<<VendorHeader>> \o body) :
        body \in SeqsUpTo({<<S("P1"), S("Pump"), S("10"), S("12"), S(""), v>> :
                              v \in {S("7"), S("x"), S("")}}, n)}
    \cup
    {XlsxFile(<<VendorHeader>> \o body) :
        body \in SeqsUpTo({<<S("P1"), S("Pump"), F(10), F(12), None, v>> :
                              v \in {F(7), S("x"), None}}, n)}

ValidateFiles(schema, numeric, type, infer) ==
    SchemaFiles(schema) \cup NumericFiles(numeric) \cup TypeFiles(type) \cup InferFiles(infer)

\* files handed to parse_rows and compute_quality: equal and unequal rows
QualityFiles(n) ==
    UNION {
      {CsvFile(<<h>> \o body) :
          body \in SeqsUpTo({<<S("P1"), S("10")>>, <<S("P1"), S("10.0")>>, <<S("P2"), S("")>>},
                            n)}
      \cup
      {XlsxFile(<<h>> \o body) :
          body \in SeqsUpTo({<<S("P1"), F(10)>>, <<None, S("x")>>, <<S("None"), S("x")>>},
                            n)} :
      h \in {<<S("Equipment Name"), S("Flowrate")>>, <<S("Record"), S("Flowrate")>>}}

\* files with every required column and a Vendor column of numbers and words,
\* profiled by parse_and_validate and by compute_quality
ProfileFiles(n) ==
    {CsvFile(<<VendorHeader>> \o body) :
        body \in SeqsUpTo({<<S("P1"), S("Pump"), S("10"), S("12"), S(""), v>> :
                              v \in {S("7"), S("x")}}, n)}

\* the previous_headers a caller passes
PreviousHeaders == {NoPrevious, Previous(<<>>), Previous(<<"Type", "Flowrate">>)}

\* files whose Pressure is mostly the negative of Flowrate, with a Vendor
\* column of numbers, blanks, words and nan, and rows that stop short
CorrRows ==
    {<<S("P1"), S("Pump"), S("1"), S("-1"), S(""), S("1")>>,
     <<S("P1"), S("Pump"), S("2"), S("-2"), S(""), S("2")>>,
     <<S("P1"), S("Pump"), S("2"), S("-2"), S(""), S("1")>>,
     <<S("P1"), S("Pump"), S("1"), S("-2"), S(""), S("2")>>,
     <<S("P1"), S("Pump"), S("1"), S("-1"), S(""), S("")>>,
     <<S("P1"), S("Pump"), S("2"), S("-2"), S(""), S("x")>>,
     <<S("P1"), S("Pump"), S("2"), S("-2"), S(""), S("nan")>>,
     <<S("P1"), S("Pump"), S("1")>>}

CorrFiles(n) == {CsvFile(<<VendorHeader>> \o body) : body \in SeqsUpTo(CorrRows, n)}

\* the numeric_cols a caller passes to compute_correlations
CorrRequests ==
    {<<"Flowrate">>, <<"Vendor">>, <<"Flowrate", "Pressure">>,
     <<"Flowrate", "Vendor", "Pressure">>}

\* the desktop receives rows from the API, not a file
NoFile == [kind |-> "none"]

\* a row of the API with one cell
FlowRow(v) == [c \in {"Flowrate"} |-> v]

\* every short list of rows over a few cells
ShortRows(n) ==
    {[i \in 1..Len(cells) |-> FlowRow(cells[i])] :
        cells \in SeqsUpTo({I(1), F(12), I(-10), S("")}, n)}

\* values on both sides of 10, two by two at the same distance from it
Ladder(i) == IF i % 2 = 1 THEN 10 + 20 * i ELSE 10 - 20 * (i - 1)

\* cells that hold no number, and one that does after stripping
OddCells == <<None, S(""), S("x"), S("nan"), S("NaN"), S(" 7 ")>>

\* long lists: maybe the odd cells, then values away from 10, then 10s
LongRows(bulk, ladder) ==
    {[i \in 1..Len(cells) |-> FlowRow(cells[i])] :
        cells \in {odd \o [i \in 1..k |-> I(Ladder(i))] \o [i \in 1..b |-> F(10)] :
                      odd \in {<<>>, OddCells}, k \in 0..ladder, b \in 1..bulk}}

AnalyticsRows(n, bulk, ladder) == ShortRows(n) \cup LongRows(bulk, ladder)

\* the numeric_cols the widget passes; no row has a Pressure
OutlierRequests == {<<"Flowrate">>, <<"Flowrate", "Pressure">>}

\* files with a block of equal rows followed by a few rows that differ: a
\* Flowrate far from the others, a Flowrate missing, the only Temperature
AnomalyFiles(bulk, tail) ==
    {CsvFile(<<VendorHeader>>
             \o [i \in 1..b |-> <<S("P1"), S("Pump"), S("10"), S("10"), S(""), S("7")>>]
             \o t) :
        b \in 0..bulk,
        t \in SeqsUpTo({<<S("P2"), S("Pump"), S("12"), S("10"), S(""), S("7")>>,
                        <<S("P3"), S("Valve"), S(""), S("10"), S(""), S("x")>>,
                        <<S("P4"), S("Valve"), S("2"), S("12"), S("7"), S("")>>}, tail)}

\* the numeric_cols a caller passes to detect_anomalies_zscore: the default and
\* a list with a column of text
AnomalyRequests == {BASE_COLUMNS, <<"Flowrate", "Vendor">>}

\* files with Flowrates that are numbers or missing and a Vendor column of
\* numbers, words, blanks and nan, and rows that stop short
KMeansFiles(n) ==
    {CsvFile(<<VendorHeader>> \o body) :
        body \in SeqsUpTo({<<S("P1"), S("Pump"), S("1"), S("10"), S(""), S("1")>>,
                           <<S("P1"), S("Pump"), S("2"), S("10"), S(""), S("7")>>,
                           <<S("P1"), S("Pump"), S("12"), S("10"), S(""), S("x")>>,
                           <<S("P1"), S("Pump"), S(""), S("10"), S(""), S("7")>>,
                           <<S("P1"), S("Pump"), S("4"), S("10"), S(""), S("nan")>>,
                           <<S("P1"), S("Pump"), S("7")>>}, n)}

\* the numeric_cols and the max_k a caller passes to kmeans_clusters
KMeansRequests == {<<"Flowrate">>, <<"Flowrate", "Vendor">>}

MaxKs == {1, 2, DefaultMaxK}

\* files with four columns of numbers, the Temperature nearly always the same
WideCorrFiles(n) ==
    {CsvFile(<<VendorHeader>> \o body) :
        body \in SeqsUpTo({<<S("P1"), S("Pump"), S("1"), S("-1"), S("7"), S("1")>>,
                           <<S("P1"), S("Pump"), S("2"), S("-2"), S("7"), S("2")>>,
                           <<S("P1"), S("Pump"), S("2"), S("-2"), S("7"), S("1")>>,
                           <<S("P1"), S("Pump"), S("1"), S("-2"), S("7"), S("2")>>,
                           <<S("P1"), S("Pump"), S("1"), S("-1"), S("4"), S("2")>>}, n)}

\* a numeric_cols of four columns: six pairs, of which three are kept
WideRequests == {<<"Flowrate", "Pressure", "Temperature", "Vendor">>}

\* files with a Flowrate and a Vendor that hold numbers, the same 0.1, text,
\* nothing and nan
SkewFiles(n) ==
    {CsvFile(<<VendorHeader>> \o body) :
        body \in SeqsUpTo({<<S("P1"), S("Pump"), S("1"), S(""), S(""), S("0.1")>>,
                           <<S("P1"), S("Pump"), S("2"), S(""), S(""), S("0.1")>>,
                           <<S("P1"), S("Pump"), S("1"), S(""), S(""), S("7")>>,
                           <<S("P1"), S("Pump"), S(""), S(""), S(""), S("x")>>,
                           <<S("P1"), S("Pump"), S("4"), S(""), S(""), S("")>>,
                           <<S("P1"), S("Pump"), S("1"), S(""), S(""), S("nan")>>}, n)}

\* the numeric_cols of the call; no row has a Pressure
SkewRequests == {<<"Flowrate">>, <<"Vendor">>, <<"Flowrate", "Pressure">>}

\* ----------------------------------------------------------------- actions
InitWith(files) ==
    /\ file \in files
    /\ tab = NotCalled
    /\ pv = NotCalled
    /\ pr = NotCalled
    /\ header = <<>>
    /\ rows = <<>>
    /\ quality = <<>>
    /\ previous = NoPrevious
    /\ corr = NotCalled
    /\ outliers = NotCalled
    /\ anomalies = NotCalled
    /\ clusters = NotCalled
    /\ skew = NotCalled
    /\ widget = NoWidget

\* a call of _read_tabular on the file
ReadTabularStep ==
    /\ tab = NotCalled
    /\ tab' = ReadTabular(file)
    /\ UNCHANGED <<file, pv, pr, header, rows, quality, previous, corr, outliers, anomalies, clusters, skew, widget>>

\* a call of parse_and_validate on the file
ParseAndValidateStep ==
    /\ pv = NotCalled
    /\ pv' = ParseAndValidate(file)
    /\ UNCHANGED <<file, tab, pr, header, rows, quality, previous, corr, outliers, anomalies, clusters, skew, widget>>

\* header, rows = parse_rows(fb, name)
ParseRowsStep ==
    /\ pr = NotCalled
    /\ LET res == ParseRows(file)
       IN  /\ pr' = [status |-> res.status]
           /\ header' = IF res.status = "ok" THEN res.header ELSE header
           /\ rows' = IF res.status = "ok" THEN res.rows ELSE rows
    /\ UNCHANGED <<file, tab, pv, quality, previous, corr, outliers, anomalies, clusters, skew, widget>>

\* quality = compute_quality(header, rows, previous_headers); a later run on
\* the same rows is given the previous header of the first run
ComputeQualityStep ==
    /\ pr.status = "ok"
    /\ Len(quality) < MaxRuns
    /\ \E previous_headers \in IF quality = <<>> THEN PreviousHeaders ELSE {previous} :
          /\ quality' = Append(quality, ComputeQuality(header, rows, previous_headers))
          /\ previous' = previous_headers
    /\ header' = QualityArgsAfter(header, rows)[1]
    /\ rows' = QualityArgsAfter(header, rows)[2]
    /\ UNCHANGED <<file, tab, pv, pr, corr, outliers, anomalies, clusters, skew, widget>>

\* correlations = compute_correlations(rows, numeric_cols), for a numeric_cols
\* of requests
ComputeCorrelationsWith(requests) ==
    /\ pr.status = "ok"
    /\ corr = NotCalled
    /\ \E numeric_cols \in requests :
          \E result \in ComputeCorrelations(rows, numeric_cols) :
             corr' = [status |-> "ok", numeric_cols |-> numeric_cols,
                      arr |-> CompleteData(rows, numeric_cols), result |-> result]
    /\ UNCHANGED <<file, tab, pv, pr, header, rows, quality, previous, outliers, anomalies, clusters, skew, widget>>

ComputeCorrelationsStep == ComputeCorrelationsWith(CorrRequests)

ComputeCorrelationsWideStep == ComputeCorrelationsWith(WideRequests)

\* outliers_by_col = self._compute_outliers(self._analytics_rows, numeric_cols)
\* in visualization.py
ComputeOutliersStep ==
    /\ outliers = NotCalled
    /\ \E numeric_cols \in OutlierRequests :
          outliers' = [status |-> "ok", impl |-> "visualization",
                       numeric_cols |-> numeric_cols,
                       result |-> ComputeOutliers(rows, numeric_cols)]
    /\ UNCHANGED <<file, tab, pv, pr, header, rows, quality, previous, corr, anomalies, clusters, skew, widget>>

\* outliers_by_col = self._compute_outliers(rows, numeric_cols) in
\* visualization_fixed.py
ComputeOutliersFixedStep ==
    /\ outliers = NotCalled
    /\ \E numeric_cols \in OutlierRequests :
          outliers' = [status |-> "ok", impl |-> "visualization_fixed",
                       numeric_cols |-> numeric_cols,
                       result |-> ComputeOutliersFixed(rows, numeric_cols)]
    /\ UNCHANGED <<file, tab, pv, pr, header, rows, quality, previous, corr, anomalies, clusters, skew, widget>>

\* anomalies, stats = detect_anomalies_zscore(rows, numeric_cols)
DetectAnomaliesStep ==
    /\ pr.status = "ok"
    /\ anomalies = NotCalled
    /\ \E numeric_cols \in AnomalyRequests :
          \E result \in DetectAnomaliesZscore(rows, numeric_cols) :
             anomalies' = [status |-> "ok", numeric_cols |-> numeric_cols,
                           anomalies |-> result.anomalies, stats |-> result.stats]
    /\ UNCHANGED <<file, tab, pv, pr, header, rows, quality, previous, corr, outliers, clusters, skew, widget>>

\* clusters = kmeans_clusters(rows, numeric_cols, max_k)
KMeansClustersStep ==
    /\ pr.status = "ok"
    /\ clusters = NotCalled
    /\ skew = NotCalled
    /\ widget = NoWidget
    /\ \E numeric_cols \in KMeansRequests, max_k \in MaxKs :
          \E outcome \in KMeansClusters(rows, numeric_cols, max_k) :
             clusters' = [numeric_cols |-> numeric_cols, max_k |-> max_k] @@ outcome
    /\ UNCHANGED <<file, tab, pv, pr, header, rows, quality, previous, corr, outliers, anomalies, skew, widget>>

\* var_skew = compute_variance_skewness(rows, numeric_cols)
ComputeVarianceSkewnessStep ==
    /\ pr.status = "ok"
    /\ skew = NotCalled
    /\ \E numeric_cols \in SkewRequests :
          skew' = [numeric_cols |-> numeric_cols]
                    @@ ComputeVarianceSkewness(rows, numeric_cols)
    /\ UNCHANGED <<file, tab, pv, pr, header, rows, quality, previous, corr, outliers, anomalies, clusters, widget>>

\* the analytics of build_pdf for a stored dataset: numeric_cols from the
\* summary of the upload, then compute_correlations and
\* compute_variance_skewness on the rows of parse_rows
ReportAnalyticsStep ==
    /\ pv.status = "ok"
    /\ pr.status = "ok"
    /\ corr = NotCalled
    /\ skew = NotCalled
    /\ \E result \in ComputeCorrelations(rows, ReportColumns(pv.summary, header)) :
          corr' = [status |-> "ok", numeric_cols |-> ReportColumns(pv.summary, header),
                   arr |-> CompleteData(rows, ReportColumns(pv.summary, header)),
                   result |-> result]
    /\ skew' = [numeric_cols |-> ReportColumns(pv.summary, header)]
                 @@ ComputeVarianceSkewness(rows, ReportColumns(pv.summary, header))
    /\ UNCHANGED <<file, tab, pv, pr, header, rows, quality, previous, outliers, anomalies, clusters, widget>>

\* the user opens a dataset: load_dataset(dataset) on the thread of the widget
LoadDatasetStep ==
    /\ widget.loads < MaxLoads
    /\ \E dataset \in 1..NumDatasets : widget' \in LoadDataset(widget, dataset)
    /\ UNCHANGED <<file, tab, pv, pr, header, rows, quality, previous, corr, outliers, anomalies, clusters, skew>>

\* a running AnalyticsFetchThread ends its run with loaded.emit(payload)
FetchThreadStep ==
    /\ \E t \in 1..Len(widget.threads) :
          /\ widget.threads[t].state = "running"
          /\ \E failed \in BOOLEAN : widget' = Emitted(widget, t, failed)
    /\ UNCHANGED <<file, tab, pv, pr, header, rows, quality, previous, corr, outliers, anomalies, clusters, skew>>

\* the event loop of the widget delivers the oldest queued signal to the slot
\* _on_analytics_loaded
OnAnalyticsLoadedStep ==
    /\ widget.events # <<>>
    /\ widget' = [OnAnalyticsLoaded(widget, Head(widget.events))
                    EXCEPT !.events = Tail(widget.events)]
    /\ UNCHANGED <<file, tab, pv, pr, header, rows, quality, previous, corr, outliers, anomalies, clusters, skew>>

\* ---------------------------------------------------------- specifications
\* the three entry points that read a file, each called on the same file
InitEntry == InitWith(ReaderFiles(MaxHeaderCells))

NextEntry == ReadTabularStep \/ ParseAndValidateStep \/ ParseRowsStep

SpecEntry == InitEntry /\ [][NextEntry]_vars

\* the upload path: parse_and_validate on a file
InitValidate ==
    InitWith(ValidateFiles(MaxRowsSchema, MaxRowsNumeric, MaxRowsType, MaxRowsInfer))

NextValidate == ParseAndValidateStep

SpecValidate == InitValidate /\ [][NextValidate]_vars

\* the report path: parse_rows, then compute_quality on what it returned
InitQuality == InitWith(QualityFiles(MaxRowsQuality))

NextQuality == ParseRowsStep \/ ComputeQualityStep

SpecQuality == InitQuality /\ [][NextQuality]_vars

\* the upload path and the report path on the same file
InitProfile == InitWith(ProfileFiles(MaxRowsProfile))

NextProfile == ParseAndValidateStep \/ ParseRowsStep \/ ComputeQualityStep

SpecProfile == InitProfile /\ [][NextProfile]_vars

\* the report path up to the correlations
InitCorrelation == InitWith(CorrFiles(MaxRowsCorr))

NextCorrelation == ParseRowsStep \/ ComputeCorrelationsStep

SpecCorrelation == InitCorrelation /\ [][NextCorrelation]_vars

\* the desktop widget, either implementation, on rows it fetched
InitOutliers ==
    /\ file = NoFile
    /\ tab = NotCalled
    /\ pv = NotCalled
    /\ pr = NotCalled
    /\ header = <<>>
    /\ rows \in AnalyticsRows(MaxRowsOutlier, MaxBulk, MaxLadder)
    /\ quality = <<>>
    /\ previous = NoPrevious
    /\ corr = NotCalled
    /\ outliers = NotCalled
    /\ anomalies = NotCalled
    /\ clusters = NotCalled
    /\ skew = NotCalled
    /\ widget = NoWidget

NextOutliers == ComputeOutliersStep \/ ComputeOutliersFixedStep

SpecOutliers == InitOutliers /\ [][NextOutliers]_vars

\* the rows of a file searched for anomalies
InitAnomaly == InitWith(AnomalyFiles(MaxBulkZ, MaxTailZ))

NextAnomaly == ParseRowsStep \/ DetectAnomaliesStep

SpecAnomaly == InitAnomaly /\ [][NextAnomaly]_vars

\* the rows of a file clustered
InitKMeans == InitWith(KMeansFiles(MaxRowsK))

NextKMeans == ParseRowsStep \/ KMeansClustersStep

SpecKMeans == InitKMeans /\ [][NextKMeans]_vars

\* the report path up to the correlations, over four columns
InitCorrelationWide == InitWith(WideCorrFiles(MaxRowsCorrWide))

NextCorrelationWide == ParseRowsStep \/ ComputeCorrelationsWideStep

SpecCorrelationWide == InitCorrelationWide /\ [][NextCorrelationWide]_vars

\* the report path up to the variance and skewness
InitSkew == InitWith(SkewFiles(MaxRowsSkew))

NextSkew == ParseRowsStep \/ ComputeVarianceSkewnessStep

SpecSkew == InitSkew /\ [][NextSkew]_vars

\* an upload and the analytics of its report
InitReport == InitWith(InferFiles(MaxRowsReport))

NextReport == ParseAndValidateStep \/ ParseRowsStep \/ ReportAnalyticsStep

SpecReport == InitReport /\ [][NextReport]_vars

\* the widget of either file after __init__, and its analytics threads
InitWidget ==
    /\ file = NoFile
    /\ tab = NotCalled
    /\ pv = NotCalled
    /\ pr = NotCalled
    /\ header = <<>>
    /\ rows = <<>>
    /\ quality = <<>>
    /\ previous = NoPrevious
    /\ corr = NotCalled
    /\ outliers = NotCalled
    /\ anomalies = NotCalled
    /\ clusters = NotCalled
    /\ skew = NotCalled
    /\ widget \in {[impl |-> impl, current_dataset |-> 0, analytics_thread |-> 0,
                    threads |-> <<>>, events |-> <<>>, analytics_rows |-> 0,
                    rendered |-> <<>>, loads |-> 0] :
                      impl \in {"visualization", "visualization_fixed"}}

NextWidget == LoadDatasetStep \/ FetchThreadStep \/ OnAnalyticsLoadedStep

SpecWidget == InitWidget /\ [][NextWidget]_vars

\* ------------------------------------------------------------------ claims
\* what the reader makes of the file
Read == ReadTabular(file)

ReadOk == Read.status = "ok"

\* the required columns the header lacks
MissingRequired(h) == {c \in Range(REQUIRED_COLUMNS) : c \notin Range(h)}

HasAllRequired == ReadOk /\ MissingRequired(Read.header) = {}

BadCells ==
    {<<i, b>> \in (1..Len(Read.rows)) \X (1..Len(BASE_COLUMNS)) :
        LET val == Get(Read.rows[i], BASE_COLUMNS[b])
        IN  val # None /\ val # S("") /\ ~ParsesAsFloat(val)}

\* the first bad cell in scan order: rows in read order, then Flowrate,
\* Pressure, Temperature
FirstBadCell ==
    CHOOSE c \in BadCells :
        \A d \in BadCells : c[1] < d[1] \/ (c[1] = d[1] /\ c[2] <= d[2])

\* C2: with every required column present, parse_and_validate fails iff some
\* base numeric cell is non-empty and no float; the error names the column and
\* the 1-based row of the first such cell, and carries no summary or preview
C2_FailsOnFirstBadNumeric ==
    (pv # NotCalled /\ HasAllRequired) =>
        /\ (pv.status = "error") <=> (BadCells # {})
        /\ pv.status \in {"ok", "error"}
        /\ BadCells # {} =>
              /\ pv.exc = "CSVValidationError"
              /\ DOMAIN pv = {"status", "exc", "text", "column", "row"}
              /\ pv.row = FirstBadCell[1]
              /\ pv.column = BASE_COLUMNS[FirstBadCell[2]]
        /\ BadCells = {} => DOMAIN pv = {"status", "summary", "preview_csv"}

\* the call failed on Pressure in row 2, after a row whose base cells are
\* empty or absent, and a later cell of row 2 is bad as well
C2_Witness ==
    /\ pv.status = "error"
    /\ HasAllRequired
    /\ "row" \in DOMAIN pv
    /\ pv.row = 2
    /\ pv.column = "Pressure"
    /\ \A b \in 1..Len(BASE_COLUMNS) : IsEmpty(Get(Read.rows[1], BASE_COLUMNS[b]))
    /\ <<2, 3>> \in BadCells

\* the rows holding a non-empty value of the column, and those that parse
NonEmptyAt(col) == {i \in 1..Len(Read.rows) : ~IsEmpty(Get(Read.rows[i], col))}

ParseableAt(col) == {i \in NonEmptyAt(col) : ParsesAsFloat(Get(Read.rows[i], col))}

\* seq lists members of the header without repeats, in header order
InHeaderOrder(seq, h) ==
    \A i, j \in 1..Len(seq) :
        i < j => \E p, q \in 1..Len(h) : p < q /\ h[p] = seq[i] /\ h[q] = seq[j]

\* C3: in a successful parse_and_validate a column other than Type and
\* Equipment Name is in numeric_columns iff it has a non-empty value and at
\* least 80% of its non-empty values parse; numeric_columns keeps header order
C3_NumericIffEightyPercent ==
    (pv.status = "ok") =>
        /\ \A col \in Range(Read.header) \ {"Type", "Equipment Name"} :
              (col \in Range(pv.summary.numeric_columns)) <=>
                  /\ NonEmptyAt(col) # {}
                  /\ 5 * Cardinality(ParseableAt(col)) >= 4 * Cardinality(NonEmptyAt(col))
        /\ InHeaderOrder(pv.summary.numeric_columns, Read.header)

\* Vendor has five non-empty values of which four parse, and is numeric
C3_Witness ==
    /\ pv.status = "ok"
    /\ Cardinality(NonEmptyAt("Vendor")) = 5
    /\ Cardinality(ParseableAt("Vendor")) = 4
    /\ "Vendor" \in Range(pv.summary.numeric_columns)
    /\ pv.summary.numeric_columns = <<"Flowrate", "Pressure", "Vendor">>

\* the data lines of the file that become rows
DataLines ==
    IF file.kind = "csv" THEN SelectSeq(Tail(file.grid), NonBlankLine) ELSE Tail(file.grid)

\* the position of the Type cell in the first line of the file
TypePos == CHOOSE p \in 1..Len(file.grid[1]) : file.grid[1][p] = S("Type")

\* the key a line is to be counted under: its raw Type value, or 'Unknown'
\* when the line has no Type cell
ExpectedTypeKey(line) == IF TypePos <= Len(line) THEN Str(line[TypePos]) ELSE "Unknown"

\* C4 as claimed: in type_distribution every row is counted once, under its
\* raw Type value, or under 'Unknown' when its Type value is absent
C4_AbsentTypeIsUnknown ==
    (pv.status = "ok") =>
        LET keys == {ExpectedTypeKey(DataLines[i]) : i \in 1..Len(DataLines)}
        IN  /\ DOMAIN pv.summary.type_distribution = keys
            /\ \A t \in keys :
                  pv.summary.type_distribution[t] =
                      Cardinality({i \in 1..Len(DataLines) : ExpectedTypeKey(DataLines[i]) = t})

\* C5: parse_rows stores Record = i in the i-th row read: the Record values
\* are unique, strictly increasing in read order, and exactly 1..N
C5_RecordIsReadIndex ==
    (pr.status = "ok") =>
        /\ Len(rows) = Len(Read.rows)
        /\ \A i \in 1..Len(rows) : "Record" \in DOMAIN rows[i] /\ rows[i]["Record"] = I(i)
        /\ \A i, j \in 1..Len(rows) : i < j => rows[i]["Record"].n < rows[j]["Record"].n
        /\ {rows[i]["Record"].n : i \in 1..Len(rows)} = 1..Len(rows)

\* three rows were read from a file whose header has a Record column of its own
C5_Witness ==
    /\ pr.status = "ok"
    /\ Len(rows) >= 3
    /\ "Record" \in Range(header)
    /\ Read.rows[3]["Record"] # I(3)
    /\ rows[3]["Record"] = I(3)

\* C6 as claimed: the header _read_tabular returns never holds a name twice
C6_HeaderUnique ==
    (tab.status = "ok") =>
        \A i, j \in 1..Len(tab.header) : i # j => tab.header[i] # tab.header[j]

\* the names of the cells of a sheet's first row, '' for a blank one
SheetNames == [i \in 1..Len(file.grid[1]) |-> XlsxHeaderCell(file.grid[1][i])]

\* C7 as claimed: for a spreadsheet whose named header cells are distinct,
\* every named header cell is retained, and every record maps a retained
\* header name to the cell in the sheet column of that header cell, also when
\* a blank header cell lies before it
C7_NamesKeepTheirColumn ==
    (/\ tab.status = "ok"
     /\ file.kind = "xlsx"
     /\ file.grid # <<>>
     /\ \A i, j \in 1..Len(SheetNames) :
           (i # j /\ SheetNames[i] # "") => SheetNames[i] # SheetNames[j]) =>
        /\ Range(tab.header) = Range(SheetNames) \ {""}
        /\ \A r \in 1..Len(tab.rows) :
              \A i \in 1..Len(SheetNames) :
                  (SheetNames[i] # "" /\ i <= Len(file.grid[r + 1])) =>
                      Get(tab.rows[r], SheetNames[i]) = file.grid[r + 1][i]

NoHeaderRow == file.decodable /\ file.grid = <<>>

CanonicalTuple(r) == [p \in 1..Len(header) |-> <<header[p], Str(Get(r, header[p]))>>]

\* the rows whose tuple equals that of an earlier row
LaterEquals ==
    {i \in 1..Len(rows) : \E j \in 1..(i - 1) : CanonicalTuple(rows[j]) = CanonicalTuple(rows[i])}

\* the s-th of them in read order
NthLaterEqual(s) == CHOOSE i \in LaterEquals : Cardinality({j \in LaterEquals : j <= i}) = s

\* C9: duplicate_rows.count is the number of rows minus the number of distinct
\* tuples, i.e. the rows equal to an earlier one, and samples holds the first
\* min(3, count) of those rows in read order, never the first of a group
C9_DuplicatesAreLaterEquals ==
    \A q \in 1..Len(quality) :
        LET d == quality[q].duplicate_rows
        IN  /\ d.count = Len(rows) - Cardinality({CanonicalTuple(rows[i]) : i \in 1..Len(rows)})
            /\ d.count = Cardinality(LaterEquals)
            /\ Len(d.samples) = Min2(3, d.count)
            /\ \A s \in 1..Len(d.samples) :
                  d.samples[s] = [c \in Range(header) |-> Get(rows[NthLaterEqual(s)], c)]

\* four rows repeat an earlier one though the lines of the file differ, and
\* three of them are sampled
C9_Witness ==
    /\ Len(quality) >= 1
    /\ quality[1].duplicate_rows.count = 4
    /\ Len(quality[1].duplicate_rows.samples) = 3
    /\ Cardinality(Range(DataLines)) >= 2

ParseableRows(col) ==
    {i \in 1..Len(rows) : ~IsEmpty(Get(rows[i], col)) /\ ParsesAsFloat(Get(rows[i], col))}

\* C11 as claimed: ranges[col] is reported iff some non-empty value of the
\* column parses as a float, and min and max are then the smallest and the
\* largest of the values that parse (the others are skipped)
C11_RangeOverParseable ==
    \A q \in 1..Len(quality) :
        \A col \in Range(header) :
            LET parsed == {FloatOf(Get(rows[i], col)) : i \in ParseableRows(col)}
                ranges == quality[q].ranges
            IN  /\ (col \in DOMAIN ranges) <=> (parsed # {})
                /\ col \in DOMAIN ranges =>
                      /\ ranges[col].min \in parsed
                      /\ ranges[col].max \in parsed
                      /\ \A x \in parsed : ranges[col].min <= x /\ x <= ranges[col].max

\* C12 as claimed: for a column other than Type and Equipment Name (here one
\* that holds a value in some row), column_types says numeric iff the summary
\* of the same file lists the column in numeric_columns
C12_TypesAgree ==
    (pv.status = "ok") =>
        \A q \in 1..Len(quality) :
            \A col \in Range(header) \ {"Type", "Equipment Name"} :
                (\E i \in 1..Len(rows) : ~IsEmpty(Get(rows[i], col))) =>
                    ((quality[q].column_types[col] = "numeric") <=>
                        (col \in Range(pv.summary.numeric_columns)))

\* the last compute_quality run's schema_drift
LastDrift == quality[Len(quality)].schema_drift

\* a list of names in strictly increasing sorted() order
IsSortedNames(seq) == \A i, j \in 1..Len(seq) : i < j => NameRank[seq[i]] < NameRank[seq[j]]

\* the drift report of current header H against previous header P
DriftIs(d, H, P) ==
    /\ DOMAIN d = {"added_columns", "removed_columns", "unchanged_columns"}
    /\ Range(d.added_columns) = H \ P
    /\ Range(d.removed_columns) = P \ H
    /\ Range(d.unchanged_columns) = H \cap P
    /\ IsSortedNames(d.added_columns)
    /\ IsSortedNames(d.removed_columns)
    /\ IsSortedNames(d.unchanged_columns)
    /\ Range(d.added_columns) \cap Range(d.removed_columns) = {}
    /\ Range(d.added_columns) \cap Range(d.unchanged_columns) = {}
    /\ Range(d.removed_columns) \cap Range(d.unchanged_columns) = {}
    /\ Range(d.added_columns) \cup Range(d.unchanged_columns) = H
    /\ Range(d.removed_columns) \cup Range(d.unchanged_columns) = P

Parses(r, c) == ~IsEmpty(Get(r, c)) /\ ParsesAsFloat(Get(r, c))

AllParse(r, cols) == \A i \in 1..Len(cols) : Parses(r, cols[i])

\* the same, the value being a number and not nan
HasNumber(r, c) == Parses(r, c) /\ ~IsNaN(Get(r, c))

IsComplete(r, cols) == \A i \in 1..Len(cols) : HasNumber(r, cols[i])

\* what the call returned
CorrCalled == corr # NotCalled

\* the call kept exactly the rows used, as the floats of the requested columns
UsesExactly(used) ==
    /\ Len(corr.arr) = Len(used)
    /\ \A r \in 1..Len(used) : \A i \in 1..Len(corr.numeric_cols) :
          /\ HasNumber(used[r], corr.numeric_cols[i])
          /\ corr.arr[r][i] = F(FloatOf(Get(used[r], corr.numeric_cols[i])))

EmptyBelowTwo ==
    /\ corr.result.order = corr.numeric_cols
    /\ Len(corr.arr) < 2 =>
          /\ corr.result.matrix = L(<<>>)
          /\ corr.result.strongest_pairs = <<>>

IsSquare(matrix, n) ==
    /\ matrix.k = "list"
    /\ Len(matrix.xs) = n
    /\ \A i \in 1..n : matrix.xs[i].k = "list" /\ Len(matrix.xs[i].xs) = n

\* the used values of the i-th requested column are not all equal
Varies(i) == \E r, q \in 1..Len(corr.arr) : corr.arr[r][i] # corr.arr[q][i]

\* C15: with two usable rows or more the matrix is a square list of lists with
\* one row and one column per requested column (also for a single column),
\* symmetric, with 1.0 on the diagonal for every column whose values vary
C15_MatrixSquareSymmetric ==
    (CorrCalled /\ Len(corr.arr) >= 2) =>
        LET n == Len(corr.numeric_cols)
            matrix == corr.result.matrix
        IN  /\ IsSquare(matrix, n)
            /\ \A i, j \in 1..n : matrix.xs[i].xs[j] = matrix.xs[j].xs[i]
            /\ \A i \in 1..n : Varies(i) => matrix.xs[i].xs[i] = PlusOne

\* the requested columns i and j are exact negatives over the used rows
Negatives(i, j) == \A r \in 1..Len(corr.arr) : corr.arr[r][i].n = -corr.arr[r][j].n

\* the coefficient and the names of the pair (i, j)
CoefOf(i, j) == corr.result.matrix.xs[i].xs[j]

NamesOf(i, j) == <<corr.numeric_cols[i], corr.numeric_cols[j]>>

PairIndexes == PairsFrom(1, 2, Len(corr.numeric_cols))

FirstPair == corr.result.strongest_pairs[1]

IsPerfect(c) == c \in {PlusOne, MinusOne}

DesktopNumber(v) ==
    \/ v.k \in {"int", "float"}
    \/ v.k = "str" /\ Strip(v.s) \in DOMAIN FloatLiterals

DesktopValue(v) == IF v.k = "str" THEN FloatLiterals[Strip(v.s)] ELSE v.n

NumbersOf(col) ==
    LET cells == SelectSeq([i \in 1..Len(rows) |-> Get(rows[i], col)], DesktopNumber)
    IN  [i \in 1..Len(cells) |-> DesktopValue(cells[i])]

OutliersCalled == outliers # NotCalled

\* a / b = c / d
SameRatio(p, q) == p.num * q.den = q.num * p.den

\* lb = q1 - 1.5 * iqr and ub = q3 + 1.5 * iqr, q1 and q3 in quarters
BoundsFromQuartiles(e, values) ==
    LET q1 == Percentile(Sorted(values), 1).num
        q3 == Percentile(Sorted(values), 3).num
    IN  /\ SameRatio(e.lb, [num |-> 2 * q1 - 3 * (q3 - q1), den |-> 8])
        /\ SameRatio(e.ub, [num |-> 2 * q3 + 3 * (q3 - q1), den |-> 8])

Outside(v, e) == v * e.lb.den < e.lb.num \/ v * e.ub.den > e.ub.num

CountOutside(values, e) == Cardinality({i \in 1..Len(values) : Outside(values[i], e)})

\* C17: for a column with four parseable values or more, both desktop
\* implementations report lb = Q1 - 1.5 * IQR and ub = Q3 + 1.5 * IQR, every
\* reported value lies strictly below lb or above ub, count is the number of
\* values outside the bounds and values holds min(8, count) of them
C17_OutliersOutsideBounds ==
    OutliersCalled =>
        \A col \in DOMAIN outliers.result :
            LET values == NumbersOf(col)
                e == outliers.result[col]
            IN  Len(values) >= 4 =>
                  /\ BoundsFromQuartiles(e, values)
                  /\ \A i \in 1..Len(e.values) :
                        /\ Outside(e.values[i], e)
                        /\ e.values[i] \in Range(values)
                  /\ e.count = CountOutside(values, e)
                  /\ Len(e.values) = Min2(8, e.count)

\* nine values outside the bounds: eight are shown
C17_Witness ==
    /\ OutliersCalled
    /\ Len(NumbersOf("Flowrate")) >= 4
    /\ outliers.result["Flowrate"].count = 9
    /\ Len(outliers.result["Flowrate"].values) = 8
    /\ outliers.result["Flowrate"].lb.num % 8 # 0

\* C18: for a column with fewer than four parseable values, both desktop
\* implementations return an entry for the column with lb = 0, ub = 0, an
\* empty values list and count = 0
C18_ShortColumnEntry ==
    OutliersCalled =>
        \A i \in 1..Len(outliers.numeric_cols) :
            LET col == outliers.numeric_cols[i]
            IN  Len(NumbersOf(col)) < 4 =>
                  /\ col \in DOMAIN outliers.result
                  /\ DOMAIN outliers.result[col] = {"lb", "ub", "values", "count"}
                  /\ outliers.result[col].lb.num = 0
                  /\ outliers.result[col].ub.num = 0
                  /\ outliers.result[col].values = <<>>
                  /\ outliers.result[col].count = 0

AnomaliesCalled == anomalies # NotCalled

\* the numbers of a column of rows, in row order
NumbersIn(col) ==
    LET kept == SelectSeq(rows, LAMBDA r : Get(r, col).k \in {"int", "float"})
    IN  [i \in 1..Len(kept) |-> kept[i][col].n]

\* n * n times the population variance of xs
ScaledVariance(xs) ==
    Len(xs) * SumSeq([i \in 1..Len(xs) |-> xs[i] * xs[i]]) - SumSeq(xs) * SumSeq(xs)

\* n * n times (v - mean) squared
ScaledDeviation(v, xs) == (Len(xs) * v - SumSeq(xs)) * (Len(xs) * v - SumSeq(xs))

\* |v - mean| / std > 3, resp. = 3, for a column whose std is not 0
ZAbove3(v, xs) == ScaledVariance(xs) > 0 /\ ScaledDeviation(v, xs) > 9 * ScaledVariance(xs)

ZEquals3(v, xs) == ScaledVariance(xs) > 0 /\ ScaledDeviation(v, xs) = 9 * ScaledVariance(xs)

\* the record ids with a value whose z-score is above 3, resp. is 3, in a
\* requested column
RecordsAbove3 ==
    {rows[i]["Record"].n : i \in
        {i \in 1..Len(rows) : \E c \in Range(anomalies.numeric_cols) :
            /\ Get(rows[i], c).k \in {"int", "float"}
            /\ ZAbove3(rows[i][c].n, NumbersIn(c))}}

RecordsAt3 ==
    {rows[i]["Record"].n : i \in
        {i \in 1..Len(rows) : \E c \in Range(anomalies.numeric_cols) :
            /\ Get(rows[i], c).k \in {"int", "float"}
            /\ ZEquals3(rows[i][c].n, NumbersIn(c))}}

\* stats has the columns with a number, with their mean and population std
StatsOfNumericColumns ==
    /\ DOMAIN anomalies.stats = {c \in Range(anomalies.numeric_cols) : NumbersIn(c) # <<>>}
    /\ \A c \in DOMAIN anomalies.stats :
          /\ anomalies.stats[c].mean.num * Len(NumbersIn(c)) =
                SumSeq(NumbersIn(c)) * anomalies.stats[c].mean.den
          /\ anomalies.stats[c].std.root_of.num * Len(NumbersIn(c)) * Len(NumbersIn(c)) =
                ScaledVariance(NumbersIn(c)) * anomalies.stats[c].std.root_of.den

\* C19, as stated: detect_anomalies_zscore flags exactly the records with
\* |v - mean| / std > 3 in a requested column, mean and std being the
\* population statistics of the column's numeric values; a column whose std is
\* 0 flags nothing and is in stats; a column without a number is not in stats
C19_FlagsExactlyAbove3 ==
    AnomaliesCalled =>
        /\ anomalies.anomalies = RecordsAbove3
        /\ StatsOfNumericColumns

\* C19, amended: every record with |v - mean| / std > 3 is flagged and no
\* record is flagged unless |v - mean| / std >= 3 in a column whose std is not
\* 0: a value whose z-score is exactly 3 is flagged or not depending on the
\* rounding of the floats; stats is as stated
C19_FlagsAbove3MaybeAt3 ==
    AnomaliesCalled =>
        /\ RecordsAbove3 \subseteq anomalies.anomalies
        /\ anomalies.anomalies \subseteq RecordsAbove3 \cup RecordsAt3
        /\ StatsOfNumericColumns

\* ten Flowrates of 10 and one of 12: the eleventh record is flagged, Pressure
\* is constant and in stats, Temperature has no number and is not
C19_Witness ==
    /\ AnomaliesCalled
    /\ anomalies.numeric_cols = BASE_COLUMNS
    /\ anomalies.anomalies = {11}
    /\ RecordsAbove3 = {11}
    /\ DOMAIN anomalies.stats = {"Flowrate", "Pressure"}
    /\ anomalies.stats["Pressure"].std.root_of.num = 0

ClustersReturned == clusters # NotCalled /\ clusters.status = "ok"

\* every requested feature of the row is present and parses as a number
FeaturesPresent(r) ==
    \A j \in 1..Len(clusters.numeric_cols) :
        /\ ~IsEmpty(Get(r, clusters.numeric_cols[j]))
        /\ ParsesAsFloat(Get(r, clusters.numeric_cols[j]))

\* the Record ids of the rows with every feature, in row order
CompleteRecords ==
    LET kept == SelectSeq(rows, FeaturesPresent)
    IN  [i \in 1..Len(kept) |-> kept[i]["Record"].n]

\* the Record ids of the other rows
IncompleteRecords == {rows[i]["Record"].n : i \in {i \in 1..Len(rows) : ~FeaturesPresent(rows[i])}}

\* no label is given to a row that lacks a feature: there are as many labels
\* as rec_ids, when there are labels, and no rec_id is of such a row
NoLabelForIncomplete ==
    /\ Range(clusters.result.rec_ids) \cap IncompleteRecords = {}
    /\ clusters.result.labels # None =>
          Len(clusters.result.labels.xs) = Len(clusters.result.rec_ids)

EmptyClustering == [k |-> 0, labels |-> L(<<>>), rec_ids |-> <<>>, centroids |-> L(<<>>)]

\* labels is a list with one label of 0..k-1 per rec_id and centroids a list of
\* k points
ShapedClustering(result) ==
    /\ result.labels.k = "list"
    /\ Len(result.labels.xs) = Len(result.rec_ids)
    /\ \A i \in 1..Len(result.labels.xs) : result.labels.xs[i] \in 0..(result.k - 1)
    /\ result.centroids.k = "list"
    /\ Len(result.centroids.xs) = result.k

\* C21: for every rows, feature list and max_k the result of kmeans_clusters
\* is the empty result, returned exactly when fewer than two rows are complete,
\* or a result with 2 <= k <= min(max_k, number of complete rows), one label of
\* 0..k-1 per entry of rec_ids and exactly k centroids
C21_ResultShape ==
    ClustersReturned =>
        IF Len(CompleteRecords) < 2 THEN clusters.result = EmptyClustering
        ELSE /\ clusters.result # EmptyClustering
             /\ 2 <= clusters.result.k
             /\ clusters.result.k <= Min2(clusters.max_k, Len(CompleteRecords))
             /\ ShapedClustering(clusters.result)

\* no column of the header reaches the ratio of 80%
NoColumnReachesRatio ==
    \A col \in Range(Read.header) \ {"Type", "Equipment Name"} :
        \/ NonEmptyAt(col) = {}
        \/ 5 * Cardinality(ParseableAt(col)) < 4 * Cardinality(NonEmptyAt(col))

\* C22: when no column reaches the 80% ratio in a successful
\* parse_and_validate, every base numeric column of the header is in
\* numeric_columns and has an entry in averages, median, min and max
C22_FallbackReportsBaseColumns ==
    (pv.status = "ok" /\ NoColumnReachesRatio) =>
        \A base \in Range(BASE_COLUMNS) \cap Range(Read.header) :
            /\ base \in Range(pv.summary.numeric_columns)
            /\ base \in DOMAIN pv.summary.averages
            /\ base \in DOMAIN pv.summary.median
            /\ base \in DOMAIN pv.summary.min
            /\ base \in DOMAIN pv.summary.max

\* the pairs of the request with their coefficient, in the order of the loops
AllPairs == Pairs(corr.arr, corr.numeric_cols)

\* |a| >= |b| for two coefficients that are not nan
AbsAtLeast(a, b) == a.num * b.den >= b.num * a.den

\* C23: over n requested columns and two complete rows or more,
\* strongest_pairs has min(3, n * (n - 1) / 2) entries, each a pair of two
\* distinct requested columns listed once, in non-increasing order of absolute
\* correlation, and no pair left out has a larger absolute correlation than a
\* pair that is kept (pairs whose coefficient is nan are not compared)
C23_StrongestPairsAreTheTop ==
    (CorrCalled /\ Len(corr.arr) >= 2) =>
        LET n == Len(corr.numeric_cols)
            sp == corr.result.strongest_pairs
            left == {p \in Range(AllPairs) : p \notin Range(sp)}
        IN  /\ Len(sp) = Min2(3, (n * (n - 1)) \div 2)
            /\ \A i \in 1..Len(sp) :
                  /\ sp[i].cols[1] # sp[i].cols[2]
                  /\ {sp[i].cols[1], sp[i].cols[2]} \subseteq Range(corr.numeric_cols)
            /\ \A i, j \in 1..Len(sp) :
                  i < j => {sp[i].cols[1], sp[i].cols[2]} # {sp[j].cols[1], sp[j].cols[2]}
            /\ \A i, j \in 1..Len(sp) :
                  (i < j /\ sp[i].corr # NaN /\ sp[j].corr # NaN) =>
                      AbsAtLeast(sp[i].corr, sp[j].corr)
            /\ \A p \in left : \A i \in 1..Len(sp) :
                  (p.corr # NaN /\ sp[i].corr # NaN) => AbsAtLeast(sp[i].corr, p.corr)

\* the distance by which an outlier lies beyond the bound it violates, times
\* the denominators of the bounds
Extremeness(v, e) ==
    IF v * e.ub.den > e.ub.num THEN (v * e.ub.den - e.ub.num) * e.lb.den
    ELSE (e.lb.num - v * e.lb.den) * e.ub.den

\* the number of positions of values that are outside the bounds of e and
\* more extreme than v
CountBeyond(values, v, e) ==
    Cardinality({i \in 1..Len(values) :
                    Outside(values[i], e) /\ Extremeness(values[i], e) > Extremeness(v, e)})

\* C24: both desktop implementations list the outlier values most extreme
\* first, by the distance beyond the violated bound, and with more than eight
\* outliers the eight listed are the eight most extreme: every outlier more
\* extreme than the last one listed is listed
C24_MostExtremeFirst ==
    OutliersCalled =>
        \A col \in DOMAIN outliers.result :
            LET values == NumbersOf(col)
                e == outliers.result[col]
            IN  Len(values) >= 4 =>
                  /\ \A i, j \in 1..Len(e.values) :
                        i < j => Extremeness(e.values[i], e) >= Extremeness(e.values[j], e)
                  /\ Len(e.values) = MaxShown =>
                        CountBeyond(values, e.values[MaxShown], e)
                            = CountBeyond(e.values, e.values[MaxShown], e)

\* ten outliers on both sides of bounds that differ, the two least extreme at
\* the same distance: the eight most extreme are shown, from the farthest on
C24_Witness ==
    /\ OutliersCalled
    /\ Len(NumbersOf("Flowrate")) >= 4
    /\ outliers.result["Flowrate"].count = 10
    /\ Len(outliers.result["Flowrate"].values) = 8
    /\ outliers.result["Flowrate"].values[1] = Ladder(9)
    /\ outliers.result["Flowrate"].values[2] = Ladder(10)
    /\ \E i \in 1..8 : outliers.result["Flowrate"].values[i] < 10
    /\ ~SameRatio(outliers.result["Flowrate"].lb, outliers.result["Flowrate"].ub)

SkewCalled == skew # NotCalled

\* the floats of the non-empty values of a column of the rows, in tenths
ValidVals(c) ==
    LET cells == SelectSeq([i \in 1..Len(rows) |-> Get(rows[i], c)],
                           LAMBDA v : ~IsEmpty(v))
    IN  [i \in 1..Len(cells) |-> Tenths(cells[i])]

\* every non-empty value of the column is a number
AllNumbers(c) ==
    \A i \in 1..Len(rows) :
        IsEmpty(Get(rows[i], c)) \/ (ParsesAsFloat(Get(rows[i], c)) /\ ~IsNaN(Get(rows[i], c)))

\* C25: for every column passed to compute_variance_skewness whose values are
\* numbers, a column with no value has no entry, a column with one value
\* reports variance 0 and skewness 0, a column with two values or more reports
\* the population variance, and variance 0 and skewness 0 when they are equal
C25_VarianceAndSkewness ==
    (SkewCalled /\ skew.status = "ok") =>
        \A c \in {d \in Range(skew.numeric_cols) : AllNumbers(d)} :
            LET vals == ValidVals(c)
                n == Len(vals)
            IN  /\ n = 0 => c \notin DOMAIN skew.stats
                /\ n >= 1 => c \in DOMAIN skew.stats
                /\ n = 1 => /\ IsZeroFloat(skew.stats[c].variance)
                            /\ IsZeroFloat(skew.stats[c].skewness)
                /\ n >= 2 =>
                      /\ skew.stats[c].variance.num * n * n * 100
                            = SumSquares(vals) * skew.stats[c].variance.den
                      /\ SumSquares(vals) = 0 =>
                            /\ IsZeroFloat(skew.stats[c].variance)
                            /\ IsZeroFloat(skew.stats[c].skewness)

\* the inertia of a labelling of the complete rows, over the same denominator
\* as the inertias of the sweep
InertiaOfResult ==
    Inertia(FeatureMatrix(rows, clusters.numeric_cols), clusters.result.labels.xs,
            clusters.result.k).num

\* the call swept at least one k
SweptSome ==
    /\ ClustersReturned
    /\ Len(CompleteRecords) >= 2
    /\ clusters.max_k >= 2

C26_WitnessLater ==
    /\ SweptSome
    /\ DOMAIN clusters.sweep = {2, 3}
    /\ clusters.sweep[3] < clusters.sweep[2]
    /\ clusters.result.k = 3

\* the analytics of the report ran on the columns the upload listed
ReportRan ==
    /\ pv.status = "ok"
    /\ CorrCalled
    /\ SkewCalled
    /\ skew.numeric_cols = pv.summary.numeric_columns

\* C27: for every accepted input, compute_variance_skewness and
\* compute_correlations on the rows of parse_rows with the columns listed in
\* numeric_columns return without raising: a value that does not parse in a
\* column that is 80% numeric is dropped
C27_ReportAnalyticsDoNotRaise ==
    ReportRan => (corr.status = "ok" /\ skew.status = "ok")

\* C28: whenever _on_analytics_loaded stores rows and renders the panels, the
\* rows were fetched for the dataset that is current_dataset at that moment: a
\* payload fetched for another dataset is discarded
C28_RowsOfCurrentDataset ==
    \A i \in 1..Len(widget.rendered) :
        widget.rendered[i].fetched_for = widget.rendered[i].current_dataset

\* the record is flagged on account of col: its value there has a z-score
\* above 3, or of exactly 3 and computed above it
FlaggedBy(rec, col) ==
    \E i \in 1..Len(rows) :
        /\ rows[i]["Record"].n = rec
        /\ IsNumber(Get(rows[i], col))
        /\ \/ ZAbove3(rows[i][col].n, NumbersIn(col))
           \/ ZEquals3(rows[i][col].n, NumbersIn(col))

\* every flagged record is flagged on account of a column with least values or
\* more, and with more when its z-score there is not exactly 3
FlagsNeed(least) ==
    \A rec \in anomalies.anomalies :
        \E col \in Range(anomalies.numeric_cols) :
            /\ FlaggedBy(rec, col)
            /\ Len(NumbersIn(col)) >= least
            /\ Len(NumbersIn(col)) = least =>
                  \A i \in 1..Len(rows) :
                      (rows[i]["Record"].n = rec /\ IsNumber(Get(rows[i], col)))
                          => ZEquals3(rows[i][col].n, NumbersIn(col))

C30_OtherColumnsUnchanged ==
    (pr.status = "ok") =>
        \A i \in 1..Len(rows) :
            /\ "Record" \in DOMAIN rows[i]
            /\ \A c \in Range(header) \cap Range(BASE_COLUMNS) :
                  rows[i][c] = None \/ rows[i][c].k = "float"
            /\ \A c \in Range(header) \ Range(BASE_COLUMNS) :
                  Get(rows[i], c) = Get(Read.rows[i], c)

====
